---- MODULE Spec2Model ----
(***************************************************************************)
(* Model of the island generator (IslandGeneratorApp).                     *)
(*                                                                         *)
(* The module holds several specifications over one set of variables:      *)
(*   Spec       the browser event loop: file selections, file loads,       *)
(*              generate clicks and the 20 ms timers of generateIsland and *)
(*              generateFoliage, acting on the scene groups.               *)
(*   SpecPaths  generateGraphPaths on a set of scattered nodes: the        *)
(*              Bowyer-Watson triangulation, the weighted edge list, the   *)
(*              river penalty, Kruskal's algorithm and the loop edges.     *)
(*   SpecMesh   the ring tessellation of the island surface.               *)
(*   SpecLake   the placement of the lakes and the steps that follow it.   *)
(*   SpecPlace  placeFoliageOnMesh: the face filter and the instance       *)
(*              counts.                                                    *)
(*   SpecRings  the two rock rings of generateIsland.                      *)
(*   SpecRiver  one river: traceRiverPath and the ribbons built from it;   *)
(*              SpecRiverFair is SpecRiver with the walk always stepping.  *)
(*   SpecScatter the node scattering loop of generateGraphPaths.           *)
(*   SpecTrace  createSurfacePath, one loop iteration at a time.           *)
(*   SpecSma    applySMA on a closed contour.                              *)
(*   SpecUf     class UnionFind under arbitrary find and union calls.      *)
(*   SpecFair   Spec with a bounded number of clicks and with the timers   *)
(*              firing, for the progress properties.                       *)
(* Each specification moves only its own group of variables and leaves     *)
(* the others at their initial value.                                      *)
(***************************************************************************)
EXTENDS Integers, Sequences, FiniteSets, TLC

VARIABLES
    \* ---- event loop and scene (Spec) ----
    rockModels,            \* this.rockModels.length
    foliageModels,         \* this.foliageModels.length
    generateButtonDisabled,\* this.generateButton.disabled
    rockLoads,             \* in-flight handleFileSelect invocations
    foliageLoads,          \* in-flight handleFoliageModelSelect invocations
    timers,                \* pending setTimeout(.., 20) callbacks, in firing order
    passes,                \* position of every generation pass
    group,                 \* this.group: rock rings and terrain mesh
    foliageGroup,          \* this.foliageGroup
    pathGroup,             \* this.pathGroup
    waterGroup,            \* this.waterGroup
    riverMeshes,           \* this.riverMeshes
    contourLine,           \* this.contourLine (0 = null)
    foliageBoundaryLine,   \* this.foliageBoundaryLine (0 = null)
    outerContourLine,      \* this.outerContourLine (0 = null)
    islandSurface,         \* this.islandSurface (0 = null)
    groundCoverMesh,       \* this.groundCoverMesh (0 = null)
    \* ---- generateGraphPaths (SpecPaths) ----
    pathPc,                \* position inside generateGraphPaths
    innerContour,          \* innerContour: the inclusion polygon of the scatter
    loopPercentage,        \* pathLoopingInput.value, in percent
    nodes,                 \* nodes: the scattered surface points
    insertIdx,             \* index of the next point delaunayTriangulation inserts
    triangles,             \* triangles of delaunayTriangulation
    allEdges,              \* allEdges: {u, v, weight}
    mstEdges,              \* mstEdges
    remainingEdges,        \* remainingEdges
    finalEdges,            \* finalEdges
    \* ---- terrain meshes (SpecMesh) ----
    meshPc,                \* position inside the mesh construction
    boundaryPoints,        \* uniqueBoundaryPoints / centralContourVertices
    shorelinePoints,       \* uniqueExtendedShorelinePoints
    meshLakes,             \* lakes, as the vertex loops read it
    baseHeight,            \* baseHeight (the noise of the surface is taken as 0)
    groundCoverVertices,   \* groundCoverVertices
    groundCoverIndices,    \* groundCoverIndices, one triple per triangle
    surfaceVertices,       \* vertices of the central surface
    surfaceIndices,        \* indices of the central surface, one triple per triangle
    \* ---- lake placement (SpecLake) ----
    lakePc,                \* position inside the lake placement
    innerFoliageBoundaryPoints, \* the sand polygon
    numLakes,              \* numLakes
    lakeRadius,            \* lakeRadius
    lakeIndex,             \* i of the loop over the lakes
    attempt,               \* attempt of the inner loop
    lakes,                 \* lakes
    lakeWarnings,          \* the lakes (values of i) for which console.warn was called
    lakeSurfaces,          \* lake discs that generateWaterFeatures added
    \* ---- placeFoliageOnMesh (SpecPlace) ----
    placePc,               \* position inside placeFoliageOnMesh
    meshFaces,             \* the faces (vA, vB, vC) of targetMesh in index order
    outerBoundary,         \* outerBoundary
    innerBoundary,         \* innerBoundary
    maxSlopeDegrees,       \* maxSlopeDegrees
    grassDensityHalves,    \* grassDensity * 2
    maxCountInput,         \* maxCountInput.value: given or empty
    faceIndex,             \* i / 3 of the loop over the faces
    validFaces,            \* validFaces
    totalArea2,            \* totalArea * 2
    numInstances,          \* numInstances
    debugStats,            \* debugStats: the counters of the loop over the faces
    sampleIndex,           \* i of the sampling loop
    instances,             \* the instances placed: face and barycentric weights
    \* ---- rock rings (SpecRings) ----
    ringPc,                \* position inside the construction of the two rings
    baseRadius,            \* baseRadius, in units of 1 / RadiusUnit
    shorelineOffset,       \* shorelineOffset, in units of 1 / RadiusUnit
    numLargeRocks,         \* numLargeRocks
    numSmallRocks,         \* numSmallRocks
    ringIndex,             \* i of the loop over the rocks of a ring
    innerContourData,      \* innerContourData: the angle index of every point
    smallRocksGroup,       \* children of smallRocksGroup: the index of every rock
    \* ---- one river of generateWaterFeatures (SpecRiver) ----
    riverPc,               \* position inside the generation of the river
    terrain,               \* the island surface: the coefficients of its height
    riverLakes,            \* lakes
    riverWidth,            \* riverWidth
    currentDirection,      \* currentDirection of traceRiverPath
    traceStep,             \* i of the loop of traceRiverPath
    riverPath,             \* riverPath: the points that traceRiverPath returns
    ribbonPath,            \* path of createSurfacePath: the centre line of the ribbons
    riverRibbons,          \* the ribbons pushed to this.riverMeshes
    \* ---- the scattering loop of generateGraphPaths (SpecScatter) ----
    scatterPc,             \* position inside generateGraphPaths
    numPoints,             \* numPoints
    attempts,              \* attempts
    placedNodes,           \* nodes of the scattering loop
    scatterEdges,          \* the edges that get a ribbon
    \* ---- createSurfacePath, one ray per step (SpecTrace) ----
    tracePc,               \* position inside createSurfacePath
    traceDistance,         \* totalDistance
    traceStepLength,       \* stepLength
    surfaceHoles,          \* the distances from startPoint at which a ray cast down hits nothing
    tracePath,             \* path, each point as its distance from startPoint
    traceIndex,            \* i of the loop
    traceBroke,            \* the loop was left by its break
    \* ---- applySMA ----
    smaPc,                 \* idle, returned or threw
    smaPoints,             \* the points argument
    smaWindowSize,         \* the windowSize argument
    smoothedPoints,        \* the returned array
    \* ---- class UnionFind, called directly ----
    ufParent,              \* this.parent
    ufPairs,               \* the pairs of distinct elements passed to union
    ufCall                 \* the last call and what it returned

uiVars == <<rockModels, foliageModels, generateButtonDisabled, rockLoads,
            foliageLoads, timers, passes, group, foliageGroup, pathGroup,
            waterGroup, riverMeshes, contourLine, foliageBoundaryLine,
            outerContourLine, islandSurface, groundCoverMesh>>

pathVars == <<pathPc, innerContour, loopPercentage, nodes, insertIdx, triangles, allEdges, mstEdges,
              remainingEdges, finalEdges>>

meshVars == <<meshPc, boundaryPoints, shorelinePoints, meshLakes, baseHeight,
             groundCoverVertices,
              groundCoverIndices, surfaceVertices, surfaceIndices>>

lakeVars == <<lakePc, innerFoliageBoundaryPoints, numLakes, lakeRadius, lakeIndex,
              attempt, lakes, lakeWarnings, lakeSurfaces>>

placeVars == <<placePc, meshFaces, outerBoundary, innerBoundary, maxSlopeDegrees,
               grassDensityHalves, maxCountInput, faceIndex, validFaces, totalArea2,
               numInstances, debugStats, sampleIndex, instances>>

ringVars == <<ringPc, baseRadius, shorelineOffset, numLargeRocks, numSmallRocks,
              ringIndex, innerContourData, smallRocksGroup>>

riverVars == <<riverPc, terrain, riverLakes, riverWidth, currentDirection, traceStep,
               riverPath, ribbonPath, riverRibbons>>

scatterVars == <<scatterPc, numPoints, attempts, placedNodes, scatterEdges>>

traceVars == <<tracePc, traceDistance, traceStepLength, surfaceHoles, tracePath, traceIndex, traceBroke>>

smaVars == <<smaPc, smaPoints, smaWindowSize, smoothedPoints>>

ufVars == <<ufParent, ufPairs, ufCall>>

vars == <<uiVars, pathVars, meshVars, lakeVars, placeVars, ringVars, riverVars, scatterVars, traceVars, smaVars, ufVars>>

nonUiVars == <<pathVars, meshVars, lakeVars, placeVars, ringVars, riverVars, scatterVars, traceVars, smaVars, ufVars>>
nonPathVars == <<uiVars, meshVars, lakeVars, placeVars, ringVars, riverVars, scatterVars, traceVars, smaVars, ufVars>>
nonMeshVars == <<uiVars, pathVars, lakeVars, placeVars, ringVars, riverVars, scatterVars, traceVars, smaVars, ufVars>>
nonLakeVars == <<uiVars, pathVars, meshVars, placeVars, ringVars, riverVars, scatterVars, traceVars, smaVars, ufVars>>
nonPlaceVars == <<uiVars, pathVars, meshVars, lakeVars, ringVars, riverVars, scatterVars, traceVars, smaVars, ufVars>>
nonRingVars == <<uiVars, pathVars, meshVars, lakeVars, placeVars, riverVars, scatterVars, traceVars, smaVars, ufVars>>
nonRiverVars == <<uiVars, pathVars, meshVars, lakeVars, placeVars, ringVars, scatterVars, traceVars, smaVars, ufVars>>
nonScatterVars == <<uiVars, pathVars, meshVars, lakeVars, placeVars, ringVars, riverVars, traceVars, smaVars, ufVars>>
nonTraceVars == <<uiVars, pathVars, meshVars, lakeVars, placeVars, ringVars, riverVars, scatterVars, smaVars, ufVars>>
nonSmaVars == <<uiVars, pathVars, meshVars, lakeVars, placeVars, ringVars, riverVars, scatterVars, traceVars, ufVars>>
nonUfVars == <<uiVars, pathVars, meshVars, lakeVars, placeVars, ringVars, riverVars, scatterVars, traceVars, smaVars>>

(***************************************************************************)
(* Bounds of the event-loop model.                                         *)
(***************************************************************************)
MaxPasses == 3          \* generate clicks that are accepted
MaxSelects == 2         \* rock file selections that start a load
MaxFiles == 2           \* files of one selection
MaxFoliageSelects == 1  \* foliage file selections

MaxFairPasses == 2      \* accepted clicks under SpecFair
MaxFairSelects == 1     \* rock file selections under SpecFair

PassIds == 1..MaxPasses

(***************************************************************************)
(* The scene.  Every generated object carries the pass that produced it.   *)
(***************************************************************************)
Obj(k, p) == [kind |-> k, pass |-> p]

sceneVars == <<group, foliageGroup, pathGroup, waterGroup, riverMeshes,
               contourLine, foliageBoundaryLine, outerContourLine,
               islandSurface, groundCoverMesh>>

Scene == [group |-> group, foliageGroup |-> foliageGroup, pathGroup |-> pathGroup,
          waterGroup |-> waterGroup, riverMeshes |-> riverMeshes,
          contourLine |-> contourLine, foliageBoundaryLine |-> foliageBoundaryLine,
          outerContourLine |-> outerContourLine, islandSurface |-> islandSurface,
          groundCoverMesh |-> groundCoverMesh]

\* disposeAllGeneratedObjects: the four groups are cleared, the obstacle list
\* is emptied and the line and mesh references are nulled.
disposeAllGeneratedObjects(sc) ==
    [group |-> {}, foliageGroup |-> {}, pathGroup |-> {}, waterGroup |-> {},
     riverMeshes |-> {}, contourLine |-> 0, foliageBoundaryLine |-> 0,
     outerContourLine |-> 0, islandSurface |-> 0, groundCoverMesh |-> 0]

(***************************************************************************)
(* The values generateIsland reads from the DOM when its synchronous part  *)
(* runs.  radiusOk / offsetOk: the field parses to a number (parseFloat of *)
(* an empty field is NaN).                                                 *)
(***************************************************************************)
Configs == {c \in [radiusOk : BOOLEAN, offsetOk : BOOLEAN, water : BOOLEAN,
                   lakes : BOOLEAN, rivers : BOOLEAN, paths : BOOLEAN] :
               ~c.water => (~c.lakes /\ ~c.rivers)}

\* generateWaterFeatures(lakes): guarded by the toggle; clears the water group
\* and the obstacle list, adds the lake discs, then both ribbons of each river.
generateWaterFeatures(sc, p, cfg) ==
    IF ~cfg.water \/ sc.islandSurface = 0 THEN sc
    ELSE LET lakeObjs == IF cfg.lakes THEN {Obj("lake", p)} ELSE {}
             ribbons == IF cfg.rivers /\ sc.groundCoverMesh # 0
                        THEN {Obj("riverbed", p), Obj("water", p)} ELSE {}
         IN  [sc EXCEPT !.waterGroup = lakeObjs \cup ribbons,
                        !.riverMeshes = ribbons]

\* generateGraphPaths: guarded by the toggle; clears the path group and adds
\* one ribbon per final edge.  The path ribbons carry the obstacle list
\* (this.riverMeshes) against which their edges were weighted.
generateGraphPaths(sc, p, cfg) ==
    IF sc.islandSurface = 0 \/ ~cfg.paths THEN sc
    ELSE [sc EXCEPT !.pathGroup =
             {[kind |-> "path", pass |-> p, obstacles |-> sc.riverMeshes]}]

\* Faulty variant of tryGenerate: generateGraphPaths is called before
\* generateWaterFeatures.
tryGeneratePathsFirst(sc0, p, cfg, nRocks) ==
    LET s1 == disposeAllGeneratedObjects(sc0)
        s2 == [s1 EXCEPT !.group = @ \cup {Obj("largeRocks", p)}]
        s3 == [s2 EXCEPT !.group = @ \cup {Obj("smallRocks", p)},
                         !.outerContourLine = p]
        s4 == [s3 EXCEPT !.foliageBoundaryLine = p,
                         !.group = @ \cup {Obj("terrain", p)},
                         !.groundCoverMesh = p,
                         !.islandSurface = p]
        s5 == generateGraphPaths(s4, p, cfg)
        s6 == generateWaterFeatures(s5, p, cfg)
        s7 == [s6 EXCEPT !.contourLine = p]
    IN  IF nRocks = 0 \/ ~cfg.radiusOk
        THEN [scene |-> s1, threw |-> TRUE, foliageTimer |-> FALSE]
        ELSE IF ~cfg.offsetOk
        THEN [scene |-> s2, threw |-> TRUE, foliageTimer |-> FALSE]
        ELSE [scene |-> s7, threw |-> FALSE, foliageTimer |-> TRUE]

\* The try block of generateIsland for pass p.  The result is the scene and
\* whether the block threw, and whether generateFoliage armed its timer.
\*   line 848: largeRockModels[i % 0] is undefined when rockModels is empty;
\*   line 852: generateNoise(NaN) -> new Array(NaN) throws RangeError;
\*   line 931: generateNoise(NaN) for the outer ring throws after the inner
\*             ring was added to this.group at line 885.
tryGenerate(sc0, p, cfg, nRocks) ==
    LET s1 == disposeAllGeneratedObjects(sc0)
        s2 == [s1 EXCEPT !.group = @ \cup {Obj("largeRocks", p)}]
        s3 == [s2 EXCEPT !.group = @ \cup {Obj("smallRocks", p)},
                         !.outerContourLine = p]
        s4 == [s3 EXCEPT !.foliageBoundaryLine = p,
                         !.group = @ \cup {Obj("terrain", p)},
                         !.groundCoverMesh = p,
                         !.islandSurface = p]
        s5 == generateWaterFeatures(s4, p, cfg)
        s6 == generateGraphPaths(s5, p, cfg)
        s7 == [s6 EXCEPT !.contourLine = p]
    IN  IF nRocks = 0 \/ ~cfg.radiusOk
        THEN [scene |-> s1, threw |-> TRUE, foliageTimer |-> FALSE]
        ELSE IF ~cfg.offsetOk
        THEN [scene |-> s2, threw |-> TRUE, foliageTimer |-> FALSE]
        ELSE [scene |-> s7, threw |-> FALSE, foliageTimer |-> TRUE]

SetScene(sc) ==
    /\ group' = sc.group
    /\ foliageGroup' = sc.foliageGroup
    /\ pathGroup' = sc.pathGroup
    /\ waterGroup' = sc.waterGroup
    /\ riverMeshes' = sc.riverMeshes
    /\ contourLine' = sc.contourLine
    /\ foliageBoundaryLine' = sc.foliageBoundaryLine
    /\ outerContourLine' = sc.outerContourLine
    /\ islandSurface' = sc.islandSurface
    /\ groundCoverMesh' = sc.groundCoverMesh

(***************************************************************************)
(* Initial state: nothing loaded, nothing generated.                       *)
(***************************************************************************)
InitUI ==
    /\ rockModels = 0
    /\ foliageModels = 0
    /\ generateButtonDisabled = TRUE
    /\ rockLoads = <<>>
    /\ foliageLoads = <<>>
    /\ timers = <<>>
    /\ passes = [p \in PassIds |-> "idle"]
    /\ group = {}
    /\ foliageGroup = {}
    /\ pathGroup = {}
    /\ waterGroup = {}
    /\ riverMeshes = {}
    /\ contourLine = 0
    /\ foliageBoundaryLine = 0
    /\ outerContourLine = 0
    /\ islandSurface = 0
    /\ groundCoverMesh = 0

(***************************************************************************)
(* handleFileSelect / loadFile                                             *)
(***************************************************************************)
\* The change event with an empty file list.
handleFileSelectEmpty ==
    /\ UNCHANGED nonUiVars
    /\ rockModels' = 0
    /\ generateButtonDisabled' = TRUE
    /\ UNCHANGED <<foliageModels, rockLoads, foliageLoads, timers, passes, sceneVars>>

\* The change event with n files, u of them of an unsupported type (their
\* promise resolves at once).  With no file left to read, Promise.all settles
\* in the same task and the finally block runs.
handleFileSelect(n, u) ==
    /\ UNCHANGED nonUiVars
    /\ Len(rockLoads) < MaxSelects
    /\ rockModels' = 0
    /\ IF n = u
       THEN /\ generateButtonDisabled' = TRUE
            /\ rockLoads' = Append(rockLoads, [pending |-> 0, settled |-> TRUE])
       ELSE /\ UNCHANGED generateButtonDisabled
            /\ rockLoads' = Append(rockLoads, [pending |-> n - u, settled |-> FALSE])
    /\ UNCHANGED <<foliageModels, foliageLoads, timers, passes, sceneVars>>

\* reader.onload / reader.onerror of one file of selection l.
\*   "ok"   the model is pushed to this.rockModels and the promise resolves;
\*   "skip" the promise resolves without a push (content mismatch);
\*   "fail" the promise rejects.
\* Promise.all settles on the first rejection or on the last resolution; the
\* finally block of handleFileSelect then sets the button from the list length.
loadFile(l, outcome) ==
    /\ UNCHANGED nonUiVars
    /\ l \in DOMAIN rockLoads
    /\ rockLoads[l].pending > 0
    /\ LET n == IF outcome = "ok" THEN rockModels + 1 ELSE rockModels
           left == rockLoads[l].pending - 1
           settles == ~rockLoads[l].settled /\ (outcome = "fail" \/ left = 0)
       IN  /\ rockModels' = n
           /\ rockLoads' = [rockLoads EXCEPT ![l] =
                               [pending |-> left, settled |-> @.settled \/ settles]]
           /\ generateButtonDisabled' =
                 IF settles THEN (n = 0) ELSE generateButtonDisabled
    /\ UNCHANGED <<foliageModels, foliageLoads, timers, passes, sceneVars>>

(***************************************************************************)
(* handleFoliageModelSelect / loadFoliageFile                              *)
(***************************************************************************)
handleFoliageModelSelectEmpty ==
    /\ UNCHANGED nonUiVars
    /\ foliageModels' = 0
    /\ UNCHANGED <<rockModels, generateButtonDisabled, rockLoads, foliageLoads,
                   timers, passes, sceneVars>>

handleFoliageModelSelect(n) ==
    /\ UNCHANGED nonUiVars
    /\ Len(foliageLoads) < MaxFoliageSelects
    /\ foliageModels' = 0
    /\ foliageLoads' = Append(foliageLoads, [pending |-> n])
    /\ UNCHANGED <<rockModels, generateButtonDisabled, rockLoads, timers, passes,
                   sceneVars>>

loadFoliageFile(l, outcome) ==
    /\ UNCHANGED nonUiVars
    /\ l \in DOMAIN foliageLoads
    /\ foliageLoads[l].pending > 0
    /\ foliageModels' = IF outcome = "ok" THEN foliageModels + 1 ELSE foliageModels
    /\ foliageLoads' = [foliageLoads EXCEPT ![l].pending = @ - 1]
    /\ UNCHANGED <<rockModels, generateButtonDisabled, rockLoads, timers, passes,
                   sceneVars>>

(***************************************************************************)
(* generateIsland                                                          *)
(***************************************************************************)
\* A click on the generate button (a disabled button fires no click).  The
\* handler returns at its guard when no rock model is loaded; otherwise it
\* disables the button and awaits a 20 ms timer.
generateIslandClick ==
    /\ UNCHANGED nonUiVars
    /\ ~generateButtonDisabled
    /\ IF rockModels = 0
       THEN UNCHANGED <<generateButtonDisabled, timers, passes>>
       ELSE \E p \in PassIds :
               /\ passes[p] = "idle"
               /\ \A q \in PassIds : q < p => passes[q] # "idle"
               /\ generateButtonDisabled' = TRUE
               /\ timers' = Append(timers, [kind |-> "generate", pass |-> p])
               /\ passes' = [passes EXCEPT ![p] = "awaitTimer"]
    /\ UNCHANGED <<rockModels, foliageModels, rockLoads, foliageLoads, sceneVars>>

\* generateIsland without its finally block: the button is set from the list
\* length only when the try block completes.
generateIslandResumeNoFinally(cfg) ==
    /\ UNCHANGED nonUiVars
    /\ timers # <<>>
    /\ Head(timers).kind = "generate"
    /\ LET p == Head(timers).pass
           r == tryGenerate(Scene, p, cfg, rockModels)
       IN  /\ SetScene(r.scene)
           /\ timers' = IF r.foliageTimer
                        THEN Append(Tail(timers), [kind |-> "foliage", pass |-> p])
                        ELSE Tail(timers)
           /\ passes' = [passes EXCEPT ![p] =
                            IF r.threw THEN "failed" ELSE "awaitFoliage"]
           /\ generateButtonDisabled' =
                 IF r.threw THEN generateButtonDisabled ELSE (rockModels = 0)
    /\ UNCHANGED <<rockModels, foliageModels, rockLoads, foliageLoads>>

\* The timer of the await fires: the try / catch / finally of generateIsland.
generateIslandResume(cfg) ==
    /\ UNCHANGED nonUiVars
    /\ timers # <<>>
    /\ Head(timers).kind = "generate"
    /\ LET p == Head(timers).pass
           r == tryGenerate(Scene, p, cfg, rockModels)
       IN  /\ SetScene(r.scene)
           /\ timers' = IF r.foliageTimer
                        THEN Append(Tail(timers), [kind |-> "foliage", pass |-> p])
                        ELSE Tail(timers)
           /\ passes' = [passes EXCEPT ![p] =
                            IF r.threw THEN "failed" ELSE "awaitFoliage"]
           /\ generateButtonDisabled' = (rockModels = 0)
    /\ UNCHANGED <<rockModels, foliageModels, rockLoads, foliageLoads>>

\* The setTimeout callback of generateFoliage for pass p; targetMesh is the
\* mesh of pass p, captured by the closure.
\*   "placed" placeFoliageOnMesh adds the instanced meshes;
\*   "none"   it returns early (no valid area or zero instances).
generateFoliageCallback(outcome) ==
    /\ UNCHANGED nonUiVars
    /\ timers # <<>>
    /\ Head(timers).kind = "foliage"
    /\ LET p == Head(timers).pass
       IN  /\ foliageGroup' =
                 IF foliageModels = 0 THEN foliageGroup
                 ELSE IF outcome = "placed" THEN {Obj("foliage", p)}
                 ELSE {}
           /\ passes' = [passes EXCEPT ![p] = "finished"]
    /\ timers' = Tail(timers)
    /\ UNCHANGED <<rockModels, foliageModels, generateButtonDisabled, rockLoads,
                   foliageLoads, group, pathGroup, waterGroup, riverMeshes,
                   contourLine, foliageBoundaryLine, outerContourLine,
                   islandSurface, groundCoverMesh>>

NextUI ==
    \/ handleFileSelectEmpty
    \/ \E n \in 1..MaxFiles : \E u \in 0..n : handleFileSelect(n, u)
    \/ \E l \in 1..MaxSelects : \E o \in {"ok", "skip", "fail"} : loadFile(l, o)
    \/ handleFoliageModelSelectEmpty
    \/ \E n \in 1..MaxFiles : handleFoliageModelSelect(n)
    \/ \E l \in 1..MaxFoliageSelects : \E o \in {"ok", "fail"} : loadFoliageFile(l, o)
    \/ generateIslandClick
    \/ \E cfg \in Configs : generateIslandResume(cfg)
    \/ \E o \in {"placed", "none"} : generateFoliageCallback(o)

\* isPointInPolygon(point, polygon): the crossing test on x and z.  The
\* division by (zj - zi) is cleared by multiplying with it, which reverses
\* the comparison when it is negative; it is not 0 when the first test holds.
isPointInPolygon(point, polygon) ==
    LET n == Len(polygon)
        intersect(i) ==
            LET j == IF i = 1 THEN n ELSE i - 1
                xi == polygon[i].x
                zi == polygon[i].z
                xj == polygon[j].x
                zj == polygon[j].z
            IN  /\ (zi > point.z) # (zj > point.z)
                /\ IF zj - zi > 0
                   THEN (point.x - xi) * (zj - zi) < (xj - xi) * (point.z - zi)
                   ELSE (point.x - xi) * (zj - zi) > (xj - xi) * (point.z - zi)
    IN  Cardinality({i \in 1..n : intersect(i)}) % 2 = 1

(***************************************************************************)
(* generateGraphPaths.                                                     *)
(*                                                                         *)
(* Nodes lie on an integer grid and arithmetic is exact.                   *)
(***************************************************************************)
MaxCoord == 2           \* node coordinates are 0..MaxCoord
MaxNodes == 4           \* at most this many scattered nodes
MinNodes == 3           \* generateGraphPaths returns when nodes.length < 3
SuperScale == 20        \* the super-triangle reaches 20 * deltaMax
LoopPercentages == {0, 50, 100}   \* values of pathLoopingInput

Infinity == -1          \* the weight of an edge that crosses a river

GridPoints == [x : 0..MaxCoord, z : 0..MaxCoord]

\* The height of the terrain surface under (x, z): the y of a raycast hit.
SurfaceY(x, z) == (x + 2 * z) % 3

NodeAt(g) == [x |-> g.x, y |-> SurfaceY(g.x, g.z), z |-> g.z]

SetMin(S) == CHOOSE m \in S : \A e \in S : m <= e
SetMax(S) == CHOOSE m \in S : \A e \in S : m >= e

\* The largest r with r * r <= n.
RECURSIVE sqrtBetween(_, _, _)
sqrtBetween(lo, hi, n) ==
    IF hi - lo <= 1 THEN lo
    ELSE LET mid == (lo + hi) \div 2
         IN  IF mid * mid <= n THEN sqrtBetween(mid, hi, n) ELSE sqrtBetween(lo, mid, n)

sqrt(n) == sqrtBetween(0, 46341, n)

RECURSIVE Flatten(_)
Flatten(ss) == IF ss = <<>> THEN <<>> ELSE Head(ss) \o Flatten(Tail(ss))

\* Vertex2D: {x, z, originalIndex}.  Coordinates are stored doubled so that
\* midX = minX + dx * 0.5 is an integer; originalIndex is the 1-based index in
\* nodes, and -1 for the three vertices of the super-triangle.
vertices2D(pts) ==
    [i \in DOMAIN pts |-> [x |-> 2 * pts[i].x, z |-> 2 * pts[i].z, originalIndex |-> i]]

IsSuper(v) == v.originalIndex = -1

\* The super-triangle of delaunayTriangulation.
superTriangle(pts) ==
    LET xs == {pts[i].x : i \in DOMAIN pts}
        zs == {pts[i].z : i \in DOMAIN pts}
        dx == SetMax(xs) - SetMin(xs)
        dz == SetMax(zs) - SetMin(zs)
        deltaMax == IF dx >= dz THEN dx ELSE dz
        midX2 == 2 * SetMin(xs) + dx
        midZ2 == 2 * SetMin(zs) + dz
        reach == 2 * SuperScale * deltaMax
    IN  [v0 |-> [x |-> midX2 - reach, z |-> midZ2 - 2 * deltaMax, originalIndex |-> -1],
         v1 |-> [x |-> midX2, z |-> midZ2 + reach, originalIndex |-> -1],
         v2 |-> [x |-> midX2 + reach, z |-> midZ2 - 2 * deltaMax, originalIndex |-> -1]]

\* distSq < circumcircle.radiusSq for the circumcircle of triangle t.  With
\* D = 0 the centre is not finite and the comparison is false.  For D # 0 the
\* comparison of the two squared distances to the centre (ux, uz) is the sign
\* of D times the in-circle determinant of the three vertices relative to the
\* point, which is computed here to stay in integers.
inCircumcircle(t, q) ==
    LET D == 2 * (t.v0.x * (t.v1.z - t.v2.z) + t.v1.x * (t.v2.z - t.v0.z)
                  + t.v2.x * (t.v0.z - t.v1.z))
        adx == t.v0.x - q.x
        adz == t.v0.z - q.z
        bdx == t.v1.x - q.x
        bdz == t.v1.z - q.z
        cdx == t.v2.x - q.x
        cdz == t.v2.z - q.z
        ad == adx * adx + adz * adz
        bd == bdx * bdx + bdz * bdz
        cd == cdx * cdx + cdz * cdz
        det == adx * (bdz * cd - bd * cdz) - adz * (bdx * cd - bd * cdx)
               + ad * (bdx * cdz - bdz * cdx)
    IN  /\ D # 0
        /\ (D > 0 /\ det > 0) \/ (D < 0 /\ det < 0)

triangleEdges(t) ==
    << [v0 |-> t.v0, v1 |-> t.v1], [v0 |-> t.v1, v1 |-> t.v2], [v0 |-> t.v2, v1 |-> t.v0] >>

\* Faulty variant of sameEdge: an edge is recognised only in the same
\* direction.
sameEdgeDirected(e, f) == e.v0 = f.v0 /\ e.v1 = f.v1

\* The shared-edge test of the hole boundary: the same two vertex objects in
\* either direction.
sameEdge(e, f) ==
    \/ (e.v0 = f.v0 /\ e.v1 = f.v1)
    \/ (e.v0 = f.v1 /\ e.v1 = f.v0)

\* Faulty variant of holeBoundary: every edge of every bad triangle is kept,
\* shared or not.
holeBoundaryKeepShared(bad) ==
    Flatten([i \in DOMAIN bad |-> triangleEdges(bad[i])])

\* The boundary of the polygonal hole: the edges of the bad triangles that no
\* other bad triangle has.
holeBoundary(bad) ==
    LET isShared(i, e) ==
            \E j \in DOMAIN bad :
                /\ j # i
                /\ \E k \in 1..3 : sameEdge(e, triangleEdges(bad[j])[k])
        kept(i) == SelectSeq(triangleEdges(bad[i]), LAMBDA e : ~isShared(i, e))
    IN  Flatten([i \in DOMAIN bad |-> kept(i)])

\* One iteration of points.forEach in delaunayTriangulation: insert vertex v.
insertPoint(tris, point) ==
    LET bad == SelectSeq(tris, LAMBDA t : inCircumcircle(t, point))
        polygon == holeBoundary(bad)
        kept == SelectSeq(tris, LAMBDA t : ~inCircumcircle(t, point))
    IN  kept \o [i \in DOMAIN polygon |->
                    [v0 |-> polygon[i].v0, v1 |-> polygon[i].v1, v2 |-> point]]

\* The final filter: drop the triangles that have a super-triangle vertex.
removeSuper(tris) ==
    SelectSeq(tris, LAMBDA t : ~(IsSuper(t.v0) \/ IsSuper(t.v1) \/ IsSuper(t.v2)))

\* p1.distanceToSquared(p2) on the 3D nodes.
distanceToSquared(p, q) ==
    (p.x - q.x) * (p.x - q.x) + (p.y - q.y) * (p.y - q.y) + (p.z - q.z) * (p.z - q.z)

edgeKey(u, v) == <<IF u <= v THEN u ELSE v, IF u <= v THEN v ELSE u>>

\* The weighted edge list: each undirected edge of the triangulation once, in
\* the order in which the triangles present it.
RECURSIVE dedupEdges(_, _, _, _)
dedupEdges(pts, es, seen, acc) ==
    IF es = <<>> THEN acc
    ELSE LET e == Head(es)
             u == e.v0.originalIndex
             v == e.v1.originalIndex
             key == edgeKey(u, v)
         IN  IF key \in seen
             THEN dedupEdges(pts, Tail(es), seen, acc)
             ELSE dedupEdges(pts, Tail(es), seen \cup {key},
                      Append(acc, [u |-> u, v |-> v,
                                   weight |-> distanceToSquared(pts[u], pts[v])]))

collectEdges(pts, tris) ==
    dedupEdges(pts, Flatten([i \in DOMAIN tris |-> triangleEdges(tris[i])]), {}, <<>>)

\* The river penalty: the edges of crossing (positions in the edge list whose
\* ray hits a river ribbon before the end node) get weight Infinity.  An edge
\* shorter than 0.01 is left alone.
penalize(pts, es, crossing) ==
    [i \in DOMAIN es |->
        IF i \in crossing /\ distanceToSquared(pts[es[i].u], pts[es[i].v]) > 0
        THEN [es[i] EXCEPT !.weight = Infinity]
        ELSE es[i]]

\* a.weight - b.weight > 0 (Infinity - Infinity is NaN, which sort treats as 0).
weightGreater(a, b) ==
    IF a.weight = Infinity THEN b.weight # Infinity
    ELSE b.weight # Infinity /\ a.weight > b.weight

\* Faulty variant of sortEdges: the edge list is left in insertion order.
sortEdgesKeepOrder(es) == es

\* allEdges.sort((a, b) => a.weight - b.weight): a stable sort.
RECURSIVE insertSorted(_, _)
insertSorted(sorted, e) ==
    IF sorted = <<>> THEN <<e>>
    ELSE IF weightGreater(sorted[Len(sorted)], e)
         THEN Append(insertSorted(SubSeq(sorted, 1, Len(sorted) - 1), e),
                     sorted[Len(sorted)])
         ELSE Append(sorted, e)

RECURSIVE sortEdges(_)
sortEdges(es) ==
    IF es = <<>> THEN <<>>
    ELSE insertSorted(sortEdges(SubSeq(es, 1, Len(es) - 1)), es[Len(es)])

(***************************************************************************)
(* class UnionFind                                                         *)
(***************************************************************************)
ufNew(n) == [i \in 1..n |-> i]

RECURSIVE ufRoot(_, _)
ufRoot(parent, i) == IF parent[i] = i THEN i ELSE ufRoot(parent, parent[i])

\* find(i): returns the root and points every element on the way at it.
RECURSIVE ufCompress(_, _, _)
ufCompress(parent, i, root) ==
    IF parent[i] = i THEN parent
    ELSE ufCompress([parent EXCEPT ![i] = root], parent[i], root)

ufFind(parent, i) ==
    LET root == ufRoot(parent, i)
    IN  [root |-> root, parent |-> ufCompress(parent, i, root)]

\* Faulty variant of ufUnion: the two roots are found but never linked.
ufUnionNoLink(parent, i, j) == ufFind(ufFind(parent, i).parent, j).parent

\* Faulty variant of ufUnion: the element i itself, not its root, is pointed at
\* the root of j.
ufUnionLinksElement(parent, i, j) ==
    LET fi == ufFind(parent, i)
        fj == ufFind(fi.parent, j)
    IN  IF fi.root # fj.root
        THEN [fj.parent EXCEPT ![i] = fj.root]
        ELSE fj.parent

\* union(i, j): parent[rootI] = rootJ when the roots differ.
ufUnion(parent, i, j) ==
    LET fi == ufFind(parent, i)
        fj == ufFind(fi.parent, j)
    IN  IF fi.root # fj.root
        THEN [fj.parent EXCEPT ![fi.root] = fj.root]
        ELSE fj.parent

\* Faulty variant of kruskalLoop: an edge of weight Infinity is not skipped but
\* set aside with the edges that union-find rejected.
RECURSIVE kruskalLoopKeepInfinity(_, _, _, _)
kruskalLoopKeepInfinity(es, parent, mst, rest) ==
    IF es = <<>> THEN [mst |-> mst, rest |-> rest, parent |-> parent]
    ELSE LET e == Head(es)
         IN  IF e.weight = Infinity
             THEN kruskalLoopKeepInfinity(Tail(es), parent, mst,
                                          Append(rest, [u |-> e.u, v |-> e.v]))
             ELSE LET fu == ufFind(parent, e.u)
                      fv == ufFind(fu.parent, e.v)
                  IN  IF fu.root # fv.root
                      THEN kruskalLoopKeepInfinity(Tail(es), ufUnion(fv.parent, e.u, e.v),
                                                   Append(mst, [u |-> e.u, v |-> e.v]), rest)
                      ELSE kruskalLoopKeepInfinity(Tail(es), fv.parent, mst,
                                                   Append(rest, [u |-> e.u, v |-> e.v]))

\* The forEach of Kruskal's algorithm over the sorted edges.
RECURSIVE kruskalLoop(_, _, _, _)
kruskalLoop(es, parent, mst, rest) ==
    IF es = <<>> THEN [mst |-> mst, rest |-> rest, parent |-> parent]
    ELSE LET e == Head(es)
         IN  IF e.weight = Infinity
             THEN kruskalLoop(Tail(es), parent, mst, rest)
             ELSE LET fu == ufFind(parent, e.u)
                      fv == ufFind(fu.parent, e.v)
                  IN  IF fu.root # fv.root
                      THEN kruskalLoop(Tail(es), ufUnion(fv.parent, e.u, e.v),
                                       Append(mst, [u |-> e.u, v |-> e.v]), rest)
                      ELSE kruskalLoop(Tail(es), fv.parent, mst,
                                       Append(rest, [u |-> e.u, v |-> e.v]))

kruskal(n, es) == kruskalLoop(es, ufNew(n), <<>>, <<>>)

\* Faulty variant of numLoopsToAdd: the product is rounded up.
numLoopsToAddCeil(len, pct) == (len * pct + 99) \div 100

\* Math.floor(remainingEdges.length * loopPercentage)
numLoopsToAdd(len, pct) == (len * pct) \div 100

\* The sequences of k distinct positions of 1..n: the first k places of a
\* shuffle.
RECURSIVE Picks(_, _)
Picks(S, k) ==
    IF k = 0 THEN {<<>>}
    ELSE UNION {{<<i>> \o r : r \in Picks(S \ {i}, k - 1)} : i \in S}

IdlePaths ==
    /\ pathPc = "idle"
    /\ innerContour = <<>>
    /\ loopPercentage = 0
    /\ nodes = <<>>
    /\ insertIdx = 0
    /\ triangles = <<>>
    /\ allEdges = <<>>
    /\ mstEdges = <<>>
    /\ remainingEdges = <<>>
    /\ finalEdges = <<>>

\* The inclusion polygons: polygons of fewer than 3 points, and a square
\* around the grid of the nodes.
PathContours ==
    {<<>>,
     <<[x |-> 1, z |-> 1]>>,
     <<[x |-> -1, z |-> -1], [x |-> MaxCoord + 1, z |-> MaxCoord + 1]>>,
     <<[x |-> 1, z |-> -1], [x |-> 1, z |-> MaxCoord + 1]>>,
     <<[x |-> -1, z |-> -1], [x |-> MaxCoord + 1, z |-> -1],
       [x |-> MaxCoord + 1, z |-> MaxCoord + 1], [x |-> -1, z |-> MaxCoord + 1]>>}

\* generateGraphPaths is entered with a terrain mesh and the path toggle on.
InitPathVars ==
    /\ pathPc = "entry"
    /\ innerContour \in PathContours
    /\ loopPercentage = 0
    /\ nodes = <<>>
    /\ insertIdx = 0
    /\ triangles = <<>>
    /\ allEdges = <<>>
    /\ mstEdges = <<>>
    /\ remainingEdges = <<>>
    /\ finalEdges = <<>>

\* The guard on the polygon, then the scattering loop: every node is a test
\* point that isPointInPolygon accepted, raised to the surface.  The function
\* returns when fewer than 3 nodes were placed; otherwise
\* delaunayTriangulation builds its super-triangle.
scatterNodes(g) ==
    /\ pathPc = "entry"
    /\ IF Len(innerContour) < 3
       THEN /\ g = <<>>
            /\ pathPc' = "returned"
            /\ UNCHANGED <<nodes, insertIdx, triangles>>
       ELSE /\ \A i \in DOMAIN g : isPointInPolygon(g[i], innerContour)
            /\ nodes' = [i \in DOMAIN g |-> NodeAt(g[i])]
            /\ IF Len(g) < MinNodes
               THEN /\ pathPc' = "returned"
                    /\ UNCHANGED <<insertIdx, triangles>>
               ELSE /\ pathPc' = "triangulate"
                    /\ insertIdx' = 1
                    /\ triangles' = << superTriangle(nodes') >>
    /\ UNCHANGED <<innerContour, loopPercentage, allEdges, mstEdges, remainingEdges,
                   finalEdges>>
    /\ UNCHANGED nonPathVars

delaunayInsert ==
    /\ pathPc = "triangulate"
    /\ insertIdx <= Len(nodes)
    /\ triangles' = insertPoint(triangles, vertices2D(nodes)[insertIdx])
    /\ insertIdx' = insertIdx + 1
    /\ UNCHANGED <<innerContour, loopPercentage, pathPc, nodes, allEdges, mstEdges, remainingEdges, finalEdges>>
    /\ UNCHANGED nonPathVars

delaunayFinish ==
    /\ pathPc = "triangulate"
    /\ insertIdx > Len(nodes)
    /\ triangles' = removeSuper(triangles)
    /\ pathPc' = "edges"
    /\ UNCHANGED <<innerContour, loopPercentage, nodes, insertIdx, allEdges, mstEdges, remainingEdges, finalEdges>>
    /\ UNCHANGED nonPathVars

createEdgeList ==
    /\ pathPc = "edges"
    /\ allEdges' = collectEdges(nodes, triangles)
    /\ pathPc' = "penalize"
    /\ UNCHANGED <<innerContour, loopPercentage, nodes, insertIdx, triangles, mstEdges,
                   remainingEdges, finalEdges>>
    /\ UNCHANGED nonPathVars

\* Step 3.5 and the sort.  crossing = {} stands for no river or no hit.
penalizeAndSort(crossing) ==
    /\ pathPc = "penalize"
    /\ allEdges' = sortEdges(penalize(nodes, allEdges, crossing))
    /\ pathPc' = "kruskal"
    /\ UNCHANGED <<innerContour, loopPercentage, nodes, insertIdx, triangles, mstEdges,
                   remainingEdges, finalEdges>>
    /\ UNCHANGED nonPathVars

computeMST ==
    /\ pathPc = "kruskal"
    /\ LET r == kruskal(Len(nodes), allEdges)
       IN  /\ mstEdges' = r.mst
           /\ remainingEdges' = r.rest
    /\ pathPc' = "loops"
    /\ UNCHANGED <<innerContour, loopPercentage, nodes, insertIdx, triangles, allEdges, finalEdges>>
    /\ UNCHANGED nonPathVars

\* Step 5: shuffle, take the first numLoopsToAdd edges, append them to the tree.
\* pathLoopingInput cannot change while generateGraphPaths runs, so the value
\* that line 1700 reads is drawn here, where it is first used.
addLoops(pct, pick) ==
    /\ pathPc = "loops"
    /\ loopPercentage' = pct
    /\ Len(pick) = numLoopsToAdd(Len(remainingEdges), pct)
    /\ finalEdges' = mstEdges \o [i \in DOMAIN pick |-> remainingEdges[pick[i]]]
    /\ pathPc' = "done"
    /\ UNCHANGED <<innerContour, nodes, insertIdx, triangles, allEdges, mstEdges,
                   remainingEdges>>
    /\ UNCHANGED nonPathVars

NextPaths ==
    \/ /\ pathPc = "entry"
       /\ \E n \in 0..MaxNodes : \E g \in [1..n -> GridPoints] : scatterNodes(g)
    \/ delaunayInsert
    \/ delaunayFinish
    \/ createEdgeList
    \/ \E crossing \in SUBSET (DOMAIN allEdges) : penalizeAndSort(crossing)
    \/ computeMST
    \/ \E pct \in LoopPercentages :
          \E pick \in Picks(DOMAIN remainingEdges,
                            numLoopsToAdd(Len(remainingEdges), pct)) :
              addLoops(pct, pick)

(***************************************************************************)
(* The terrain meshes of generateIsland: the ground-cover band between the *)
(* shoreline and the inner boundary, and the central surface inside the    *)
(* inner boundary.                                                         *)
(*                                                                         *)
(* The centre of the contour is the origin.  The x and z of a position are *)
(* stored multiplied by MeshScale and its y multiplied by HeightScale,     *)
(* which makes every lerp factor of the two meshes an integer.  The Perlin *)
(* noise of the surface is taken as 0, and the distance of a vertex to a   *)
(* lake centre is rounded down to a multiple of 1 / MeshScale.             *)
(***************************************************************************)
MaxSegments == 4        \* points of the resampled boundary (256 in the code)
MaxRadius == 2          \* distance of a boundary point from the centre
MaxOffset == 2          \* distance from the inner boundary to the shoreline
GroundRings == 2        \* numRings of the ground cover (32 in the code)
SurfaceRings == 2       \* numRings of the central surface (60 in the code)

MaxHeight == 2          \* heights of the contours and of the base are 1..MaxHeight

MeshScale == GroundRings * (SurfaceRings + 1) * (SurfaceRings + 1)

\* blendFactor = ringLerp^2 has the denominator (numRings + 1)^4, and it
\* multiplies a height with the denominator (numRings + 1)^2.
HeightScale ==
    GroundRings * (SurfaceRings + 1) * (SurfaceRings + 1) * (SurfaceRings + 1)
        * (SurfaceRings + 1) * (SurfaceRings + 1) * (SurfaceRings + 1)

\* Eight directions in order of increasing angle atan2(z, x).
Directions ==
    << [x |-> 1, z |-> 0], [x |-> 1, z |-> 1], [x |-> 0, z |-> 1], [x |-> -1, z |-> 1],
       [x |-> -1, z |-> 0], [x |-> -1, z |-> -1], [x |-> 0, z |-> -1], [x |-> 1, z |-> -1] >>

RECURSIVE Ascending(_)
Ascending(K) ==
    IF K = {} THEN <<>> ELSE <<SetMin(K)>> \o Ascending(K \ {SetMin(K)})

\* The direction sets of a closed contour around the centre: at least three
\* directions, and less than half a turn between neighbours.
ContourShapes ==
    {K \in SUBSET (1..8) :
        /\ Cardinality(K) >= 3
        /\ Cardinality(K) <= MaxSegments
        /\ \A k \in K : \E d \in 1..3 : (((k - 1 + d) % 8) + 1) \in K}

\* The contour points at the given distances along the directions of K.
ContourPoints(K, dist) ==
    [s \in 1..Cardinality(K) |->
        [x |-> dist[s] * Directions[Ascending(K)[s]].x,
         z |-> dist[s] * Directions[Ascending(K)[s]].z]]

\* The points of a contour as positions at the height y.
atHeight(points, y) ==
    [s \in DOMAIN points |-> [x |-> points[s].x, y |-> y, z |-> points[s].z]]

\* The lake lists the vertex loops may be given: no lake, or a lake around
\* the centre of the island and a deeper one beside it that overlaps it.
MeshLakeSets ==
    LET atCentre == [center |-> [x |-> 0, z |-> 0], radius |-> 1, depth |-> 1]
        beside == [center |-> [x |-> 1, z |-> 0], radius |-> 2, depth |-> 2]
    IN  {<<>>, <<atCentre, beside>>}

\* The square of the distance of a stored position to the centre of a lake,
\* times MeshScale^2.
lakeDistSq(lake, p) ==
    (p.x - lake.center.x * MeshScale) * (p.x - lake.center.x * MeshScale)
        + (p.z - lake.center.z * MeshScale) * (p.z - lake.center.z * MeshScale)

\* dist < lake.radius
insideLake(lake, p) ==
    lakeDistSq(lake, p) < lake.radius * MeshScale * lake.radius * MeshScale

\* lake.depth * (1.0 - smoothstep(dist, 0, lake.radius)), times HeightScale:
\* with t = dist / radius inside the lake, smoothstep is t * t * (3 - 2 * t).
depressionOf(lake, p) ==
    LET distSq == lakeDistSq(lake, p)
        dist == sqrt(distSq)
        reach == lake.radius * MeshScale
        cube == reach * reach * reach
    IN  (lake.depth * HeightScale * (cube - 3 * distSq * reach + 2 * distSq * dist))
            \div cube

\* lakes.forEach(lake => { if (dist < lake.radius) finalY -= .. }): what the
\* loop takes off finalY at the position p.
RECURSIVE lakeDepression(_, _)
lakeDepression(lks, p) ==
    IF lks = <<>> THEN 0
    ELSE (IF insideLake(Head(lks), p) THEN depressionOf(Head(lks), p) ELSE 0)
            + lakeDepression(Tail(lks), p)

\* The position p with its y lowered by the lakes.
depressed(lks, p) == [p EXCEPT !.y = @ - lakeDepression(lks, p)]

\* a.lerp(b, num / den), times den.
lerpTimes(a, b, num, den) ==
    [x |-> a.x * (den - num) + b.x * num,
     y |-> a.y * (den - num) + b.y * num,
     z |-> a.z * (den - num) + b.z * num]

scaleBy(p, k) == [x |-> p.x * k, z |-> p.z * k]

\* The position p as it is stored: its x and z are to be multiplied by k, and
\* its y is multiplied by ky already.
stored(p, k, ky) ==
    [x |-> p.x * k, y |-> p.y * (HeightScale \div ky), z |-> p.z * k]

\* The vertex with the (0-based) index i of a position buffer.
vertexAt(positions, i) == positions[i + 1]

\* The vertex rings of the ground cover (ring r = 0 is the shoreline, ring
\* numRings the inner boundary), then the skirt bottom under the shoreline.
groundCoverPositions(shore, inner, lks) ==
    LET numSegments == Len(inner)
        ringScale == (SurfaceRings + 1) * (SurfaceRings + 1)
        grid == [k \in 1..((GroundRings + 1) * numSegments) |->
                    LET r == (k - 1) \div numSegments
                        s == ((k - 1) % numSegments) + 1
                        point == stored(lerpTimes(shore[s], inner[s], r, GroundRings),
                                         ringScale, GroundRings)
                    IN  depressed(lks, point)]
        skirt == [s \in 1..numSegments |->
                    [stored(shore[s], MeshScale, 1) EXCEPT !.y = 0]]
    IN  grid \o skirt

\* gridIndices[r][s] of the ground cover.
groundGridIndex(numSegments, r, s) == r * numSegments + s

\* The two triangles of the ground-cover quad (r, s).
groundQuad(numSegments, r, s) ==
    LET next_s == (s + 1) % numSegments
        i_tl == groundGridIndex(numSegments, r, s)
        i_tr == groundGridIndex(numSegments, r, next_s)
        i_bl == groundGridIndex(numSegments, r + 1, s)
        i_br == groundGridIndex(numSegments, r + 1, next_s)
    IN  << <<i_tl, i_bl, i_br>>, <<i_tl, i_br, i_tr>> >>

\* The two triangles of the ground-cover skirt under segment s.
groundSkirt(numSegments, s) ==
    LET next_s == (s + 1) % numSegments
        skirtBottomStartIndex == (GroundRings + 1) * numSegments
        top_curr == groundGridIndex(numSegments, 0, s)
        top_next == groundGridIndex(numSegments, 0, next_s)
        bottom_curr == skirtBottomStartIndex + s
        bottom_next == skirtBottomStartIndex + next_s
    IN  << <<top_curr, top_next, bottom_next>>, <<top_curr, bottom_next, bottom_curr>> >>

\* groundCoverIndices, one triple per triangle: the band, then the skirt.
groundCoverTriangles(numSegments) ==
    Flatten([k \in 1..(GroundRings * numSegments) |->
                groundQuad(numSegments, (k - 1) \div numSegments, (k - 1) % numSegments)])
    \o Flatten([k \in 1..numSegments |-> groundSkirt(numSegments, k - 1)])

\* A contour point as a vertex of the central surface without the lake
\* depression.
contourVertexNoLakes(lks, p) == stored(p, MeshScale, 1)

\* A contour point as a vertex of the central surface: "Apply lake
\* depression to contour points as well".
contourVertex(lks, p) == depressed(lks, stored(p, MeshScale, 1))

\* ringLerp = 1 - (1 - t)^2 with t = (r + 1) / (numRings + 1), times
\* (numRings + 1)^2.
ringLerpTimes(r) ==
    (SurfaceRings + 1) * (SurfaceRings + 1) - (SurfaceRings - r) * (SurfaceRings - r)

\* The vertices of the central surface: the centre, the rings, the contour
\* and the skirt bottom under the contour.
surfacePositions(inner, base, lks) ==
    LET numSegments == Len(inner)
        ringDen == (SurfaceRings + 1) * (SurfaceRings + 1)
        centerPoint == [x |-> 0, y |-> base, z |-> 0]
        rings == [k \in 1..(SurfaceRings * numSegments) |->
                    LET r == (k - 1) \div numSegments
                        s == ((k - 1) % numSegments) + 1
                        ringLerp == ringLerpTimes(r)
                        basePointXZ == lerpTimes(centerPoint, inner[s], ringLerp, ringDen)
                        pointY == base * ringDen
                        interpolatedContourY == basePointXZ.y
                        blendFactor == ringLerp * ringLerp
                        finalY == pointY * (ringDen * ringDen - blendFactor)
                                    + interpolatedContourY * blendFactor
                    IN  depressed(lks, [x |-> basePointXZ.x * GroundRings,
                                        y |-> finalY * GroundRings,
                                        z |-> basePointXZ.z * GroundRings])]
        contour == [s \in 1..numSegments |-> contourVertex(lks, inner[s])]
        bottom == [s \in 1..numSegments |->
                      [stored(inner[s], MeshScale, 1) EXCEPT !.y = 0]]
    IN  <<stored(centerPoint, MeshScale, 1)>> \o rings \o contour \o bottom

\* gridIndices[r][s] of the central surface; ring numRings stands for
\* contourIndices and ring numRings + 1 for the skirt bottom.
surfaceGridIndex(numSegments, r, s) == 1 + r * numSegments + s

\* The triangle of the centre fan over segment s.
centreFan(numSegments, s) ==
    <<0, surfaceGridIndex(numSegments, 0, s),
         surfaceGridIndex(numSegments, 0, (s + 1) % numSegments)>>

\* The two triangles between ring r and ring r + 1 over segment s (ring
\* numRings - 1 to the contour, and the contour to the skirt bottom, are
\* pushed with the same index pattern).
surfaceQuad(numSegments, r, s) ==
    LET next_s == (s + 1) % numSegments
    IN  << <<surfaceGridIndex(numSegments, r, s), surfaceGridIndex(numSegments, r, next_s),
             surfaceGridIndex(numSegments, r + 1, next_s)>>,
           <<surfaceGridIndex(numSegments, r, s), surfaceGridIndex(numSegments, r + 1, next_s),
             surfaceGridIndex(numSegments, r + 1, s)>> >>

\* indices of the central surface, one triple per triangle: the centre fan,
\* the ring quads, the last ring to the contour, the skirt.
surfaceTriangles(numSegments) ==
    [s \in 1..numSegments |-> centreFan(numSegments, s - 1)]
    \o Flatten([k \in 1..((SurfaceRings + 1) * numSegments) |->
                surfaceQuad(numSegments, (k - 1) \div numSegments, (k - 1) % numSegments)])

\* The y component of THREE.Triangle.getNormal(a, b, c) before it is
\* normalised: ((c - b) x (a - b)).y
faceNormalY(a, b, c) == (c.z - b.z) * (a.x - b.x) - (c.x - b.x) * (a.z - b.z)

triangleNormalY(positions, t) ==
    faceNormalY(vertexAt(positions, t[1]), vertexAt(positions, t[2]),
                vertexAt(positions, t[3]))

IdleMesh ==
    /\ meshPc = "idle"
    /\ boundaryPoints = <<>>
    /\ shorelinePoints = <<>>
    /\ meshLakes = <<>>
    /\ baseHeight = 0
    /\ groundCoverVertices = <<>>
    /\ groundCoverIndices = <<>>
    /\ surfaceVertices = <<>>
    /\ surfaceIndices = <<>>

\* The state when the two contours have been resampled and the lakes placed.
InitMeshVars ==
    /\ meshPc = "groundVertices"
    /\ \E K \in ContourShapes :
         \E dist \in [1..Cardinality(K) -> 1..MaxRadius] :
           \E offset \in 1..MaxOffset :
             \E innerY \in 1..MaxHeight :
               \E shoreY \in 1..MaxHeight :
                 /\ boundaryPoints = atHeight(ContourPoints(K, dist), innerY)
                 /\ shorelinePoints =
                       atHeight(ContourPoints(K, [s \in 1..Cardinality(K) |->
                                                     dist[s] + offset]), shoreY)
    /\ meshLakes \in MeshLakeSets
    /\ baseHeight \in 1..MaxHeight
    /\ groundCoverVertices = <<>>
    /\ groundCoverIndices = <<>>
    /\ surfaceVertices = <<>>
    /\ surfaceIndices = <<>>

buildGroundCoverVertices ==
    /\ meshPc = "groundVertices"
    /\ groundCoverVertices' = groundCoverPositions(shorelinePoints, boundaryPoints, meshLakes)
    /\ meshPc' = "groundIndices"
    /\ UNCHANGED <<boundaryPoints, shorelinePoints, meshLakes, baseHeight,
                   groundCoverIndices, surfaceVertices,
                   surfaceIndices>>
    /\ UNCHANGED nonMeshVars

buildGroundCoverIndices ==
    /\ meshPc = "groundIndices"
    /\ groundCoverIndices' = groundCoverTriangles(Len(boundaryPoints))
    /\ meshPc' = "surfaceVertices"
    /\ UNCHANGED <<boundaryPoints, shorelinePoints, meshLakes, baseHeight,
                   groundCoverVertices, surfaceVertices,
                   surfaceIndices>>
    /\ UNCHANGED nonMeshVars

buildSurfaceVertices ==
    /\ meshPc = "surfaceVertices"
    /\ surfaceVertices' = surfacePositions(boundaryPoints, baseHeight, meshLakes)
    /\ meshPc' = "surfaceIndices"
    /\ UNCHANGED <<boundaryPoints, shorelinePoints, meshLakes, baseHeight,
                   groundCoverVertices, groundCoverIndices,
                   surfaceIndices>>
    /\ UNCHANGED nonMeshVars

buildSurfaceIndices ==
    /\ meshPc = "surfaceIndices"
    /\ surfaceIndices' = surfaceTriangles(Len(boundaryPoints))
    /\ meshPc' = "done"
    /\ UNCHANGED <<boundaryPoints, shorelinePoints, meshLakes, baseHeight,
                   groundCoverVertices, groundCoverIndices,
                   surfaceVertices>>
    /\ UNCHANGED nonMeshVars

NextMesh ==
    \/ buildGroundCoverVertices
    \/ buildGroundCoverIndices
    \/ buildSurfaceVertices
    \/ buildSurfaceIndices

(***************************************************************************)
(* Lake placement in generateIsland.                                       *)
(*                                                                         *)
(* Math.random() returns k / RandomSteps for k in 0..RandomSteps-1; the    *)
(* coordinates of a lake centre are stored multiplied by RandomSteps.      *)
(***************************************************************************)
MaxLakes == 2           \* numLakes
MaxLakeRadius == 3      \* lakeRadius
LakeAttempts == 2       \* maxAttempts (100 in the code)
RandomSteps == 3        \* values of Math.random()

\* sandAreaBox: the bounding box of the polygon.
expandByPoints(polygon) ==
    [min |-> [x |-> SetMin({polygon[i].x : i \in DOMAIN polygon}),
              z |-> SetMin({polygon[i].z : i \in DOMAIN polygon})],
     max |-> [x |-> SetMax({polygon[i].x : i \in DOMAIN polygon}),
              z |-> SetMax({polygon[i].z : i \in DOMAIN polygon})]]

\* THREE.MathUtils.randFloat(low, high) = low + Math.random() * (high - low)
\* with Math.random() = k / RandomSteps, times RandomSteps.
randFloatTimes(low, high, k) == RandomSteps * low + k * (high - low)

\* randomCenter for the draws kx and kz, times RandomSteps.
randomCenter(box, radius, kx, kz) ==
    [x |-> randFloatTimes(box.min.x + radius, box.max.x - radius, kx),
     z |-> randFloatTimes(box.min.z + radius, box.max.z - radius, kz)]

timesRandomSteps(polygon) ==
    [i \in DOMAIN polygon |-> scaleBy(polygon[i], RandomSteps)]

IdleLake ==
    /\ lakePc = "idle"
    /\ innerFoliageBoundaryPoints = <<>>
    /\ numLakes = 0
    /\ lakeRadius = 0
    /\ lakeIndex = 0
    /\ attempt = 0
    /\ lakes = <<>>
    /\ lakeWarnings = <<>>
    /\ lakeSurfaces = 0

\* The state when the sand polygon is built and the lake fields are read.
InitLakeVars ==
    /\ lakePc = "placing"
    /\ \E K \in ContourShapes :
         \E dist \in [1..Cardinality(K) -> 1..MaxRadius] :
             innerFoliageBoundaryPoints = ContourPoints(K, dist)
    /\ numLakes \in 1..MaxLakes
    /\ lakeRadius \in 0..MaxLakeRadius
    /\ lakeIndex = 0
    /\ attempt = 0
    /\ lakes = <<>>
    /\ lakeWarnings = <<>>
    /\ lakeSurfaces = 0

\* One iteration of the attempt loop for lake lakeIndex.
lakeAttempt(kx, kz) ==
    /\ lakePc = "placing"
    /\ lakeIndex < numLakes
    /\ attempt < LakeAttempts
    /\ LET center == randomCenter(expandByPoints(innerFoliageBoundaryPoints),
                                  lakeRadius, kx, kz)
       IN  IF isPointInPolygon(center, timesRandomSteps(innerFoliageBoundaryPoints))
           THEN /\ lakes' = Append(lakes, [center |-> center, radius |-> lakeRadius])
                /\ lakeIndex' = lakeIndex + 1
                /\ attempt' = 0
           ELSE /\ attempt' = attempt + 1
                /\ UNCHANGED <<lakes, lakeIndex>>
    /\ UNCHANGED <<lakePc, innerFoliageBoundaryPoints, numLakes, lakeRadius,
                   lakeWarnings, lakeSurfaces>>
    /\ UNCHANGED nonLakeVars

\* Faulty variant of lakeSkip: the loop over the lakes is left (break in
\* place of continue).
lakeSkipBreaks ==
    /\ lakePc = "placing"
    /\ lakeIndex < numLakes
    /\ attempt = LakeAttempts
    /\ lakeIndex' = numLakes
    /\ attempt' = 0
    /\ lakeWarnings' = Append(lakeWarnings, lakeIndex)
    /\ UNCHANGED <<lakePc, innerFoliageBoundaryPoints, numLakes, lakeRadius, lakes,
                   lakeSurfaces>>
    /\ UNCHANGED nonLakeVars

\* No attempt found a centre: a warning is logged and the lake is skipped.
lakeSkip ==
    /\ lakePc = "placing"
    /\ lakeIndex < numLakes
    /\ attempt = LakeAttempts
    /\ lakeIndex' = lakeIndex + 1
    /\ attempt' = 0
    /\ lakeWarnings' = Append(lakeWarnings, lakeIndex)
    /\ UNCHANGED <<lakePc, innerFoliageBoundaryPoints, numLakes, lakeRadius, lakes,
                   lakeSurfaces>>
    /\ UNCHANGED nonLakeVars

\* The loop over the lakes ends; generateIsland goes on to build the terrain.
lakesPlaced ==
    /\ lakePc = "placing"
    /\ lakeIndex = numLakes
    /\ lakePc' = "terrain"
    /\ UNCHANGED <<innerFoliageBoundaryPoints, numLakes, lakeRadius, lakeIndex, attempt,
                   lakes, lakeWarnings, lakeSurfaces>>
    /\ UNCHANGED nonLakeVars

\* The rest of the pass, which reads lakes with forEach only: the terrain
\* meshes (each vertex is lowered by the lakes that cover it), then
\* generateWaterFeatures(lakes), which adds one disc per lake, then
\* generateGraphPaths.
afterLakes ==
    /\ lakePc \in {"terrain", "water", "paths"}
    /\ lakePc' = CASE lakePc = "terrain" -> "water"
                   [] lakePc = "water" -> "paths"
                   [] lakePc = "paths" -> "done"
    /\ lakeSurfaces' = IF lakePc = "water" THEN Len(lakes) ELSE lakeSurfaces
    /\ UNCHANGED <<innerFoliageBoundaryPoints, numLakes, lakeRadius, lakeIndex, attempt,
                   lakes, lakeWarnings>>
    /\ UNCHANGED nonLakeVars

NextLake ==
    \/ \E kx, kz \in 0..(RandomSteps - 1) : lakeAttempt(kx, kz)
    \/ lakeSkip
    \/ lakesPlaced
    \/ afterLakes

(***************************************************************************)
(* placeFoliageOnMesh.                                                     *)
(*                                                                         *)
(* The faces of the target mesh come from a catalogue whose cross products *)
(* have an integer length, so that areas add up exactly.  An area is kept  *)
(* doubled (the length of the cross product).                              *)
(***************************************************************************)
MaxFaces == 2           \* faces of the target mesh
MaxDensityHalves == 2   \* grassDensity is 0, 1/2, .. MaxDensityHalves/2
MaxCap == 2             \* largest value of the max-count field

Vector3(px, py, pz) == [x |-> px, y |-> py, z |-> pz]

sub(a, b) == [x |-> a.x - b.x, y |-> a.y - b.y, z |-> a.z - b.z]

cross(a, b) ==
    [x |-> a.y * b.z - a.z * b.y, y |-> a.z * b.x - a.x * b.z, z |-> a.x * b.y - a.y * b.x]

lengthSq(v) == v.x * v.x + v.y * v.y + v.z * v.z

\* THREE.Triangle.getNormal(a, b, c) before it is normalised: (c - b) x (a - b).
getNormal(a, b, c) == cross(sub(c, b), sub(a, b))

\* Triangle.getArea() * 2
getArea2(f) == sqrt(lengthSq(getNormal(f.vA, f.vB, f.vC)))

add(a, b) == [x |-> a.x + b.x, y |-> a.y + b.y, z |-> a.z + b.z]

\* The face with vertex b at origin and the edges a - b and c - b.
faceAt(origin, toA, toC) == [vA |-> add(origin, toA), vB |-> origin, vC |-> add(origin, toC)]

\* The faces a target mesh is made of.  In the band between the boundaries,
\* above the water: flat, sloped by a 3-4-5 triangle (normal y 0.8), steep
\* (normal y 0.6), flat facing down, vertical.  Flat and facing up: at height
\* 0, near the centre, outside the outer boundary.
FaceCatalogue ==
    { faceAt(Vector3(30, 10, 30), Vector3(20, 0, 0), Vector3(0, 0, 20)),
      faceAt(Vector3(30, 10, 30), Vector3(20, 0, 0), Vector3(0, 15, 20)),
      faceAt(Vector3(30, 10, 30), Vector3(20, 0, 0), Vector3(0, 20, 15)),
      faceAt(Vector3(30, 10, 30), Vector3(0, 0, 20), Vector3(20, 0, 0)),
      faceAt(Vector3(30, 10, 30), Vector3(20, 0, 0), Vector3(0, 20, 0)),
      faceAt(Vector3(30, 0, 30), Vector3(20, 0, 0), Vector3(0, 0, 20)),
      faceAt(Vector3(0, 10, 0), Vector3(20, 0, 0), Vector3(0, 0, 20)),
      faceAt(Vector3(70, 10, 70), Vector3(20, 0, 0), Vector3(0, 0, 20)) }

square(h) ==
    << [x |-> h, z |-> h], [x |-> -h, z |-> h], [x |-> -h, z |-> -h], [x |-> h, z |-> -h] >>

OuterBoundaries == {square(60)}
InnerBoundaries == {square(25), <<>>}

MaxSlopes == {30, 45, 60}     \* values of maxSlopeInput, in degrees

\* cos(degToRad(maxSlopeDegrees))^2 * 4 for the angles of MaxSlopes.
cosSqTimes4(deg) == IF deg = 30 THEN 3 ELSE IF deg = 45 THEN 2 ELSE 1

\* faceNormal.y < slopeThreshold for the normalised normal; the threshold is
\* positive.  The normal of a face without area is (0, 0, 0).
belowSlopeThreshold(normal, deg) ==
    IF lengthSq(normal) = 0 THEN TRUE
    ELSE \/ normal.y < 0
         \/ 4 * normal.y * normal.y < cosSqTimes4(deg) * lengthSq(normal)

\* centroid2D, times 3.
centroid2DTimes3(f) == [x |-> f.vA.x + f.vB.x + f.vC.x, z |-> f.vA.z + f.vB.z + f.vC.z]

timesThree(polygon) == [i \in DOMAIN polygon |-> scaleBy(polygon[i], 3)]

\* Faulty variant of faceFilter: the test against the inner boundary is
\* missing.
faceFilterNoInner(f, deg, outer, inner) ==
    IF belowSlopeThreshold(getNormal(f.vA, f.vB, f.vC), deg) THEN "rejectedSlope"
    ELSE IF f.vA.y <= 0 /\ f.vB.y <= 0 /\ f.vC.y <= 0 THEN "rejectedSubmerged"
    ELSE IF ~isPointInPolygon(centroid2DTimes3(f), timesThree(outer))
         THEN "rejectedOutsideBand"
    ELSE "accepted"

\* The body of the loop over the faces: the counter of debugStats that the
\* face increments.
faceFilter(f, deg, outer, inner) ==
    IF belowSlopeThreshold(getNormal(f.vA, f.vB, f.vC), deg) THEN "rejectedSlope"
    ELSE IF f.vA.y <= 0 /\ f.vB.y <= 0 /\ f.vC.y <= 0 THEN "rejectedSubmerged"
    ELSE IF ~isPointInPolygon(centroid2DTimes3(f), timesThree(outer))
         THEN "rejectedOutsideBand"
    ELSE IF isPointInPolygon(centroid2DTimes3(f), timesThree(inner))
         THEN "rejectedInsideBand"
    ELSE "accepted"

Min(a, b) == IF a <= b THEN a ELSE b

\* Faulty variant of instanceCount: the cap is ignored.
instanceCountNoCap(area2, densityHalves, maxCount) ==
    (area2 * densityHalves) \div 400

\* numInstances: Math.floor(totalArea / 100 * grassDensity), then the cap when
\* the field is not empty and holds a number >= 0.
instanceCount(area2, densityHalves, maxCount) ==
    LET n == (area2 * densityHalves) \div 400
    IN  IF maxCount.given /\ maxCount.value >= 0 THEN Min(n, maxCount.value) ELSE n

\* cumulativeArea of the cdf entry i, doubled.
RECURSIVE cumulativeArea2(_, _)
cumulativeArea2(faces, i) ==
    IF i = 0 THEN 0 ELSE cumulativeArea2(faces, i - 1) + getArea2(faces[i])

\* cdf.find(item => item.cumulativeArea >= randomArea) for
\* randomArea = (k / RandomSteps) * totalArea: the index of the face, or 0.
findCdf(faces, total2, k) ==
    LET found == {i \in DOMAIN faces :
                     cumulativeArea2(faces, i) * RandomSteps >= k * total2}
    IN  IF found = {} THEN 0 ELSE SetMin(found)

\* debugStats as placeFoliageOnMesh initialises it for a mesh of n faces.
newDebugStats(n) ==
    [totalFaces |-> n, rejectedSlope |-> 0, rejectedSubmerged |-> 0,
     rejectedOutsideBand |-> 0, rejectedInsideBand |-> 0, accepted |-> 0]

IdlePlace ==
    /\ placePc = "idle"
    /\ meshFaces = <<>>
    /\ outerBoundary = <<>>
    /\ innerBoundary = <<>>
    /\ maxSlopeDegrees = 0
    /\ grassDensityHalves = 0
    /\ maxCountInput = [given |-> FALSE, value |-> 0]
    /\ faceIndex = 0
    /\ validFaces = <<>>
    /\ totalArea2 = 0
    /\ numInstances = 0
    /\ debugStats = newDebugStats(0)
    /\ sampleIndex = 0
    /\ instances = <<>>

\* The state when placeFoliageOnMesh has read its options.
InitPlaceVars ==
    /\ placePc = "filter"
    /\ \E n \in 1..MaxFaces : meshFaces \in [1..n -> FaceCatalogue]
    /\ outerBoundary \in OuterBoundaries
    /\ innerBoundary \in InnerBoundaries
    /\ maxSlopeDegrees \in MaxSlopes
    /\ grassDensityHalves \in 0..MaxDensityHalves
    /\ maxCountInput \in {[given |-> FALSE, value |-> 0]}
                         \cup {[given |-> TRUE, value |-> v] : v \in 0..MaxCap}
    /\ faceIndex = 0
    /\ validFaces = <<>>
    /\ totalArea2 = 0
    /\ numInstances = 0
    /\ debugStats = newDebugStats(Len(meshFaces))
    /\ sampleIndex = 0
    /\ instances = <<>>

\* One iteration of the loop over the faces.
filterFace ==
    /\ placePc = "filter"
    /\ faceIndex < Len(meshFaces)
    /\ LET f == meshFaces[faceIndex + 1]
           counter == faceFilter(f, maxSlopeDegrees, outerBoundary, innerBoundary)
       IN  /\ debugStats' = [debugStats EXCEPT ![counter] = @ + 1]
           /\ IF counter = "accepted"
              THEN /\ validFaces' = Append(validFaces, f)
                   /\ totalArea2' = totalArea2 + getArea2(f)
              ELSE UNCHANGED <<validFaces, totalArea2>>
    /\ faceIndex' = faceIndex + 1
    /\ UNCHANGED <<placePc, meshFaces, outerBoundary, innerBoundary, maxSlopeDegrees,
                   grassDensityHalves, maxCountInput, numInstances, sampleIndex, instances>>
    /\ UNCHANGED nonPlaceVars

\* Faulty variant of countInstances: the function returns only when no face
\* is valid.
countInstancesNoZeroCheck ==
    /\ placePc = "filter"
    /\ faceIndex = Len(meshFaces)
    /\ numInstances' = instanceCount(totalArea2, grassDensityHalves, maxCountInput)
    /\ placePc' = IF validFaces = <<>> THEN "returned" ELSE "sampling"
    /\ UNCHANGED <<meshFaces, outerBoundary, innerBoundary, maxSlopeDegrees,
                   grassDensityHalves, maxCountInput, faceIndex, validFaces, totalArea2,
                   debugStats, sampleIndex, instances>>
    /\ UNCHANGED nonPlaceVars

\* numInstances is computed; the function returns when it is 0 or no face is
\* valid.
countInstances ==
    /\ placePc = "filter"
    /\ faceIndex = Len(meshFaces)
    /\ numInstances' = instanceCount(totalArea2, grassDensityHalves, maxCountInput)
    /\ placePc' = IF numInstances' = 0 \/ validFaces = <<>> THEN "returned" ELSE "sampling"
    /\ UNCHANGED <<meshFaces, outerBoundary, innerBoundary, maxSlopeDegrees,
                   grassDensityHalves, maxCountInput, faceIndex, validFaces, totalArea2,
                   debugStats, sampleIndex, instances>>
    /\ UNCHANGED nonPlaceVars

\* One iteration of the sampling loop: k is the draw of randomArea, u and v
\* (in steps of 1 / RandomSteps) the draws of the barycentric coordinates.
placeInstance(k, u, v) ==
    /\ placePc = "sampling"
    /\ sampleIndex < numInstances
    /\ LET found == findCdf(validFaces, totalArea2, k)
           fold == u + v > RandomSteps
           uu == IF fold THEN RandomSteps - u ELSE u
           vv == IF fold THEN RandomSteps - v ELSE v
       IN  instances' =
              IF found = 0 THEN instances
              ELSE Append(instances, [face |-> validFaces[found], u |-> uu, v |-> vv,
                                      w |-> RandomSteps - uu - vv])
    /\ sampleIndex' = sampleIndex + 1
    /\ UNCHANGED <<placePc, meshFaces, outerBoundary, innerBoundary, maxSlopeDegrees,
                   grassDensityHalves, maxCountInput, faceIndex, validFaces, totalArea2,
                   numInstances, debugStats>>
    /\ UNCHANGED nonPlaceVars

placementDone ==
    /\ placePc = "sampling"
    /\ sampleIndex = numInstances
    /\ placePc' = "done"
    /\ UNCHANGED <<meshFaces, outerBoundary, innerBoundary, maxSlopeDegrees,
                   grassDensityHalves, maxCountInput, faceIndex, validFaces, totalArea2,
                   numInstances, debugStats, sampleIndex, instances>>
    /\ UNCHANGED nonPlaceVars

NextPlace ==
    \/ filterFace
    \/ countInstances
    \/ \E k \in {0, RandomSteps - 1} : \E uv \in {<<1, 1>>, <<RandomSteps - 1, RandomSteps - 1>>} :
          placeInstance(k, uv[1], uv[2])
    \/ placementDone

(***************************************************************************)
(* The two rock rings of generateIsland.                                   *)
(*                                                                         *)
(* Radii are multiples of 1 / RadiusUnit, so that densityCoefficient times *)
(* the radius takes values on both sides of a half.                        *)
(***************************************************************************)
MaxRingRadius == 30     \* base radii up to MaxRingRadius / RadiusUnit
MaxRingOffset == 8      \* shoreline offsets up to MaxRingOffset / RadiusUnit
RadiusUnit == 15
DENSITY_BASE_ROCKS == 75
DENSITY_BASE_RADIUS == 20
MinRocks == 3           \* Math.max(3, ..)

\* The radii of the model, and the radius 20.
RingRadii == ((0 - MaxRingOffset)..MaxRingRadius) \cup {DENSITY_BASE_RADIUS * RadiusUnit}

Max(a, b) == IF a >= b THEN a ELSE b

\* Faulty variant of roundRatio: the quotient is rounded down.
floorRatio(num, den) == num \div den

\* Math.round(num / den) for den > 0: the nearest integer, a half rounded up.
roundRatio(num, den) == (2 * num + den) \div (2 * den)

\* Math.max(3, Math.round(densityCoefficient * Math.pow(radius, 1))) with
\* densityCoefficient = DENSITY_BASE_ROCKS / DENSITY_BASE_RADIUS, for a radius
\* of r / RadiusUnit.
rockCount(r) ==
    Max(MinRocks, roundRatio(DENSITY_BASE_ROCKS * r, DENSITY_BASE_RADIUS * RadiusUnit))

IdleRings ==
    /\ ringPc = "idle"
    /\ baseRadius = 0
    /\ shorelineOffset = 0
    /\ numLargeRocks = 0
    /\ numSmallRocks = 0
    /\ ringIndex = 0
    /\ innerContourData = <<>>
    /\ smallRocksGroup = <<>>

\* The state when generateIsland has read its input fields.
InitRingVars ==
    /\ ringPc = "start"
    /\ baseRadius \in RingRadii
    /\ shorelineOffset \in 0..MaxRingOffset
    /\ numLargeRocks = 0
    /\ numSmallRocks = 0
    /\ ringIndex = 0
    /\ innerContourData = <<>>
    /\ smallRocksGroup = <<>>

\* numLargeRocks is computed and the loop over the large rocks starts.
countLargeRocks ==
    /\ ringPc = "start"
    /\ numLargeRocks' = rockCount(baseRadius)
    /\ ringPc' = "inner"
    /\ ringIndex' = 0
    /\ UNCHANGED <<baseRadius, shorelineOffset, numSmallRocks, innerContourData,
                   smallRocksGroup>>
    /\ UNCHANGED nonRingVars

\* One iteration of the loop over the large rocks: the point of angle
\* i / numLargeRocks is pushed to innerContourData.
placeLargeRock ==
    /\ ringPc = "inner"
    /\ ringIndex < numLargeRocks
    /\ innerContourData' = Append(innerContourData, ringIndex)
    /\ ringIndex' = ringIndex + 1
    /\ UNCHANGED <<ringPc, baseRadius, shorelineOffset, numLargeRocks, numSmallRocks,
                   smallRocksGroup>>
    /\ UNCHANGED nonRingVars

\* The inner ring is complete; numSmallRocks is computed from the outer
\* radius and the loop over the small rocks starts.
countSmallRocks ==
    /\ ringPc = "inner"
    /\ ringIndex = numLargeRocks
    /\ numSmallRocks' = rockCount(baseRadius + shorelineOffset)
    /\ ringPc' = "outer"
    /\ ringIndex' = 0
    /\ UNCHANGED <<baseRadius, shorelineOffset, numLargeRocks, innerContourData,
                   smallRocksGroup>>
    /\ UNCHANGED nonRingVars

\* One iteration of the loop over the small rocks.
placeSmallRock ==
    /\ ringPc = "outer"
    /\ ringIndex < numSmallRocks
    /\ smallRocksGroup' = Append(smallRocksGroup, ringIndex)
    /\ ringIndex' = ringIndex + 1
    /\ UNCHANGED <<ringPc, baseRadius, shorelineOffset, numLargeRocks, numSmallRocks,
                   innerContourData>>
    /\ UNCHANGED nonRingVars

\* The outer ring is complete.
ringsDone ==
    /\ ringPc = "outer"
    /\ ringIndex = numSmallRocks
    /\ ringPc' = "done"
    /\ UNCHANGED <<baseRadius, shorelineOffset, numLargeRocks, numSmallRocks, ringIndex,
                   innerContourData, smallRocksGroup>>
    /\ UNCHANGED nonRingVars

NextRings ==
    \/ countLargeRocks
    \/ placeLargeRock
    \/ countSmallRocks
    \/ placeSmallRock
    \/ ringsDone

(***************************************************************************)
(* One river of generateWaterFeatures: traceRiverPath, createSurfacePath   *)
(* and the two calls of createPathRibbon.                                  *)
(*                                                                         *)
(* The island surface is a height field over the integer points of a long  *)
(* strip; a ray cast down at a point outside the strip hits nothing.  The  *)
(* strip is longer than the step budget of the walk.  The vertices of the  *)
(* ground cover, where a river may start, lie on the two long edges of the *)
(* strip, VertexSpacing apart.                                             *)
(* The walk moves between neighbouring points: its direction is one of the *)
(* eight of Directions, and the arc of samples ahead of it is the          *)
(* direction itself and its two neighbours.                                *)
(***************************************************************************)
MaxRiverX == 201        \* the surface covers 0..MaxRiverX on the x axis
MaxRiverZ == 2          \* and 0..MaxRiverZ on the z axis
VertexSpacing == 201    \* distance between the ground-cover vertices of an edge
MaxSlope == 1           \* the height rises by 0..MaxSlope per unit of x and of z
MaxBase == 2            \* the height at the corner (0, 0) is 1..MaxBase
MaxRiverWidth == 2      \* riverWidth is 1..MaxRiverWidth
maxSteps == 200
StartHeight == 1        \* a start point has y > 1

RiverPoints == [x : 0..MaxRiverX, z : 0..MaxRiverZ]

\* The positions of this.groundCoverMesh.geometry.attributes.position.
GroundVertices ==
    {point \in RiverPoints : point.x % VertexSpacing = 0 /\ point.z \in {0, MaxRiverZ}}

\* The y of the hit of a ray cast down at (x, z).
elevation(t, point) == t.base + t.a * point.x + t.b * point.z

\* The lake sets: none, or one lake around the lowest corner.
RiverLakeSets ==
    {<<>>, <<[center |-> [x |-> 0, z |-> 0], radiusSq |-> 2, waterLevel |-> 4]>>}

\* currentDirection rotated by j places of Directions.
rotated(d, j) == ((d - 1 + j + 8) % 8) + 1

\* samplePoints of one step of traceRiverPath: the hits of the rays ahead of
\* currentPoint, in the order of j.  A rotation about the down axis by a
\* negative angle lowers the angle of the direction in the x-z plane, so the
\* first sample is the one before currentDirection in Directions.
samplePoints(t, currentPoint, d) ==
    LET ahead(j) == [x |-> currentPoint.x + Directions[rotated(d, j)].x,
                     z |-> currentPoint.z + Directions[rotated(d, j)].z,
                     direction |-> rotated(d, j)]
    IN  SelectSeq(<<ahead(-1), ahead(0), ahead(1)>>,
                  LAMBDA q : [x |-> q.x, z |-> q.z] \in RiverPoints)

\* samplePoints.sort((a, b) => a.elevation - b.elevation)[0]: the first of the
\* lowest samples.
lowestSample(t, samples) ==
    LET lowest == SetMin({elevation(t, samples[i]) : i \in DOMAIN samples})
        first == SetMin({i \in DOMAIN samples : elevation(t, samples[i]) = lowest})
    IN  samples[first]

\* lakes.some(..) that never finds a lake.
flowedIntoNoLake(t, lks, point) == FALSE

\* lakes.some(..): the point is below the water level of a lake and nearer to
\* its centre than its radius.
flowedIntoLake(t, lks, point) ==
    \E i \in DOMAIN lks :
        /\ elevation(t, point) < lks[i].waterLevel
        /\ (point.x - lks[i].center.x) * (point.x - lks[i].center.x)
             + (point.z - lks[i].center.z) * (point.z - lks[i].center.z) < lks[i].radiusSq

distanceSq(p, q) == (p.x - q.x) * (p.x - q.x) + (p.z - q.z) * (p.z - q.z)

\* Math.ceil(totalDistance / stepLength) for a step length of 1 or more: the
\* least n with n * stepLength >= totalDistance.
ceilSteps(totalSq, stepLength) ==
    LET whole == IF sqrt(totalSq) * sqrt(totalSq) = totalSq
                 THEN sqrt(totalSq) ELSE sqrt(totalSq) + 1
    IN  (whole + stepLength - 1) \div stepLength

\* createSurfacePath(startPoint, endPoint, .., stepLength): startPoint, then a
\* hit under every point at the distance min(stepLength * i, totalDistance)
\* from startPoint on the straight line to endPoint.  A point of the path is
\* given by the two ends of that line and the square of its distance from
\* the first end.
createSurfacePath(startPoint, endPoint, stepLength) ==
    LET totalSq == distanceSq(startPoint, endPoint)
        numSteps == ceilSteps(totalSq, stepLength)
        at(dSq) == [from |-> startPoint, to |-> endPoint, distanceSq |-> dSq]
        along(i) == IF stepLength * i * stepLength * i < totalSq
                    THEN stepLength * i * stepLength * i ELSE totalSq
    IN  IF numSteps <= 1 THEN <<at(0), at(totalSq)>>
        ELSE <<at(0)>> \o [i \in 1..numSteps |-> at(along(i))]

\* nextPoint.y >= currentPoint.y, without the case of equal heights.
localMinimumStrict(t, nextPoint, currentPoint) ==
    elevation(t, nextPoint) > elevation(t, currentPoint)

\* nextPoint.y >= currentPoint.y: "Stuck in a local minimum".
localMinimum(t, nextPoint, currentPoint) ==
    elevation(t, nextPoint) >= elevation(t, currentPoint)

IdleRiver ==
    /\ riverPc = "idle"
    /\ terrain = [base |-> 0, a |-> 0, b |-> 0]
    /\ riverLakes = <<>>
    /\ riverWidth = 0
    /\ currentDirection = 0
    /\ traceStep = 0
    /\ riverPath = <<>>
    /\ ribbonPath = <<>>
    /\ riverRibbons = <<>>

\* traceRiverPath is entered with a start point and a random direction.
\* riverWidth is read before the walk and used after it; nothing can change
\* the input field in between, and its value is drawn where it is used.
InitRiverVars ==
    /\ riverPc = "trace"
    /\ terrain \in [base : 1..MaxBase, a : 0..MaxSlope, b : 0..MaxSlope]
    /\ riverLakes \in RiverLakeSets
    /\ riverWidth = 0
    /\ currentDirection \in 1..8
    /\ traceStep = 0
    /\ \E startPoint \in GroundVertices :
          /\ elevation(terrain, startPoint) > StartHeight
          /\ riverPath = <<startPoint>>
    /\ ribbonPath = <<>>
    /\ riverRibbons = <<>>

\* One iteration of the loop of traceRiverPath: the walk moves to the lowest
\* sample, or the loop is left (the step budget is used up, no sample, no
\* descent, or a lake reached).
traceRiverStep ==
    /\ riverPc = "trace"
    /\ LET currentPoint == riverPath[Len(riverPath)]
           samples == samplePoints(terrain, currentPoint, currentDirection)
           next == lowestSample(terrain, samples)
           nextPoint == [x |-> next.x, z |-> next.z]
       IN  IF traceStep >= maxSteps \/ samples = <<>>
           THEN /\ riverPc' = "traced"
                /\ UNCHANGED <<currentDirection, riverPath>>
           ELSE IF localMinimum(terrain, nextPoint, currentPoint)
           THEN /\ riverPc' = "traced"
                /\ UNCHANGED <<currentDirection, riverPath>>
           ELSE /\ currentDirection' = next.direction
                /\ riverPath' = Append(riverPath, nextPoint)
                /\ riverPc' = IF flowedIntoLake(terrain, riverLakes, nextPoint)
                              THEN "traced" ELSE "trace"
    /\ traceStep' = IF traceStep >= maxSteps THEN traceStep ELSE traceStep + 1
    /\ UNCHANGED <<terrain, riverLakes, riverWidth, ribbonPath, riverRibbons>>
    /\ UNCHANGED nonRiverVars

\* A river path of more than one point gets its two ribbons, both built by
\* createPathRibbon on the path of createSurfacePath(riverPath[0],
\* riverPath[riverPath.length - 1], ..).
buildRiverRibbons(width) ==
    /\ riverPc = "traced"
    /\ riverWidth' = width
    /\ IF Len(riverPath) > 1
       THEN /\ ribbonPath' = createSurfacePath(riverPath[1], riverPath[Len(riverPath)],
                                               width)
            /\ riverRibbons' = <<"riverbed", "water">>
       ELSE UNCHANGED <<ribbonPath, riverRibbons>>
    /\ riverPc' = "done"
    /\ UNCHANGED <<terrain, riverLakes, currentDirection, traceStep, riverPath>>
    /\ UNCHANGED nonRiverVars

NextRiver ==
    \/ traceRiverStep
    \/ \E width \in 1..MaxRiverWidth : buildRiverRibbons(width)

(***************************************************************************)
(* The scattering loop of generateGraphPaths, one attempt per step, and    *)
(* what the rest of the function makes of its nodes.                       *)
(*                                                                         *)
(* The inclusion polygon is a triangle whose bounding box holds the test   *)
(* points; the target mesh has a hole under one of them.                   *)
(***************************************************************************)
MaxScatterPoints == 3   \* numPoints is 0..MaxScatterPoints
AttemptsPerPoint == 100

ScatterContour ==
    <<[x |-> -1, z |-> -1], [x |-> 2 * MaxCoord + 1, z |-> -1],
      [x |-> -1, z |-> 2 * MaxCoord + 1]>>

\* The test points (randomX, randomZ) of an attempt.
TestPoints ==
    {[x |-> 0, z |-> 0], [x |-> MaxCoord, z |-> 0], [x |-> 0, z |-> MaxCoord],
     [x |-> 1, z |-> 1], [x |-> MaxCoord + 1, z |-> MaxCoord + 1]}

\* raycaster.intersectObject(targetMesh, true).length > 0
surfaceHit(point) == point # [x |-> 1, z |-> 1]

\* The condition of the while loop without its attempt budget.
scatterGoesOnUnbounded(placed, wanted, tried) == placed < wanted

\* nodes.length < numPoints && attempts < maxAttempts
scatterGoesOn(placed, wanted, tried) ==
    placed < wanted /\ tried < wanted * AttemptsPerPoint

\* delaunayTriangulation(vertices2D): the super-triangle, the points inserted
\* in order from the index i on, the triangles of the super-triangle removed.
RECURSIVE insertFrom(_, _, _)
insertFrom(tris, verts, i) ==
    IF i > Len(verts) THEN removeSuper(tris)
    ELSE insertFrom(insertPoint(tris, verts[i]), verts, i + 1)

\* Steps 2 to 4 of generateGraphPaths on the scattered nodes, without rivers
\* and without loop edges: the edges of the minimum spanning tree.
treeEdges(pts) ==
    LET tris == insertFrom(<<superTriangle(pts)>>, vertices2D(pts), 1)
    IN  kruskal(Len(pts), sortEdges(penalize(pts, collectEdges(pts, tris), {}))).mst

IdleScatter ==
    /\ scatterPc = "idle"
    /\ numPoints = 0
    /\ attempts = 0
    /\ placedNodes = <<>>
    /\ scatterEdges = <<>>

\* generateGraphPaths has passed its guard and read numPoints.
InitScatterVars ==
    /\ scatterPc = "entry"
    /\ numPoints \in 0..MaxScatterPoints
    /\ attempts = 0
    /\ placedNodes = <<>>
    /\ scatterEdges = <<>>

\* if (numPoints < 3) return; otherwise the loop is entered.
checkNumPoints ==
    /\ scatterPc = "entry"
    /\ scatterPc' = IF numPoints < MinNodes THEN "returned" ELSE "scatter"
    /\ UNCHANGED <<numPoints, attempts, placedNodes, scatterEdges>>
    /\ UNCHANGED nonScatterVars

\* One iteration of the while loop.
scatterAttempt(testPoint) ==
    /\ scatterPc = "scatter"
    /\ scatterGoesOn(Len(placedNodes), numPoints, attempts)
    /\ placedNodes' =
          IF isPointInPolygon(testPoint, ScatterContour) /\ surfaceHit(testPoint)
          THEN Append(placedNodes, NodeAt(testPoint))
          ELSE placedNodes
    /\ attempts' = attempts + 1
    /\ UNCHANGED <<scatterPc, numPoints, scatterEdges>>
    /\ UNCHANGED nonScatterVars

\* The loop is left: with fewer than 3 nodes the function returns, otherwise
\* it goes on to build the edges and their ribbons.
scatterEnd ==
    /\ scatterPc = "scatter"
    /\ ~scatterGoesOn(Len(placedNodes), numPoints, attempts)
    /\ IF Len(placedNodes) < MinNodes
       THEN /\ scatterPc' = "returned"
            /\ UNCHANGED scatterEdges
       ELSE /\ scatterPc' = "done"
            /\ scatterEdges' = treeEdges(placedNodes)
    /\ UNCHANGED <<numPoints, attempts, placedNodes>>
    /\ UNCHANGED nonScatterVars

NextScatter ==
    \/ checkNumPoints
    \/ \E testPoint \in TestPoints : scatterAttempt(testPoint)
    \/ scatterEnd

(***************************************************************************)
(* createSurfacePath, one ray per step.                                    *)
(*                                                                         *)
(* A point of the straight line from startPoint to endPoint is given by    *)
(* its distance from startPoint.  The two ends are points of the surface;  *)
(* the surface may have holes between them.                                *)
(***************************************************************************)
MaxTraceDistance == 4   \* totalDistance is 0..MaxTraceDistance
MaxTraceStep == 2       \* stepLength is 0..MaxTraceStep
MaxTraceIndex == 6      \* i++ leaves i unchanged from here on (2^53 in the code)

\* numSteps <= 1, with numSteps = Math.ceil(totalDistance / stepLength): the
\* quotient by a step length of 0 is Infinity, or NaN for a distance of 0, and
\* neither is <= 1.
fewSteps(total, step) == step > 0 /\ ceilSteps(total * total, step) <= 1

\* i <= numSteps: always true for Infinity, never for NaN.
withinSteps(i, total, step) ==
    IF step = 0 THEN total > 0 ELSE i <= ceilSteps(total * total, step)

IdleTrace ==
    /\ tracePc = "idle"
    /\ traceDistance = 0
    /\ traceStepLength = 0
    /\ surfaceHoles = {}
    /\ tracePath = <<>>
    /\ traceIndex = 0
    /\ traceBroke = FALSE

\* createSurfacePath is called with two points of the surface.
InitTraceVars ==
    /\ tracePc = "entry"
    /\ traceDistance \in 0..MaxTraceDistance
    /\ traceStepLength \in 0..MaxTraceStep
    /\ surfaceHoles \in SUBSET (1..(traceDistance - 1))
    /\ tracePath = <<>>
    /\ traceIndex = 0
    /\ traceBroke = FALSE

\* The lines before the loop: path = [startPoint], and the early return with
\* [startPoint, endPoint] when numSteps <= 1.
traceEnter ==
    /\ tracePc = "entry"
    /\ IF fewSteps(traceDistance, traceStepLength)
       THEN /\ tracePath' = <<0, traceDistance>>
            /\ tracePc' = "returned"
            /\ UNCHANGED traceIndex
       ELSE /\ tracePath' = <<0>>
            /\ tracePc' = "loop"
            /\ traceIndex' = 1
    /\ UNCHANGED <<traceDistance, traceStepLength, surfaceHoles, traceBroke>>
    /\ UNCHANGED nonTraceVars

\* One iteration of the loop: the ray at distanceAlong; a hit is pushed when
\* it is not the last point of the path, a miss leaves the loop.
traceIteration ==
    /\ tracePc = "loop"
    /\ withinSteps(traceIndex, traceDistance, traceStepLength)
    /\ LET distanceAlong == Min(traceStepLength * traceIndex, traceDistance)
       IN  IF distanceAlong \in surfaceHoles
           THEN /\ traceBroke' = TRUE
                /\ tracePc' = "after"
                /\ UNCHANGED <<tracePath, traceIndex>>
           ELSE /\ tracePath' = IF tracePath[Len(tracePath)] # distanceAlong
                                THEN Append(tracePath, distanceAlong) ELSE tracePath
                /\ traceIndex' = Min(traceIndex + 1, MaxTraceIndex)
                /\ UNCHANGED <<tracePc, traceBroke>>
    /\ UNCHANGED <<traceDistance, traceStepLength, surfaceHoles>>
    /\ UNCHANGED nonTraceVars

\* After the loop: endPoint is pushed when it is not the last point of the
\* path, and the path is returned.
traceReturn ==
    /\ \/ tracePc = "after"
       \/ /\ tracePc = "loop"
          /\ ~withinSteps(traceIndex, traceDistance, traceStepLength)
    /\ tracePath' = IF tracePath[Len(tracePath)] # traceDistance
                    THEN Append(tracePath, traceDistance) ELSE tracePath
    /\ tracePc' = "returned"
    /\ UNCHANGED <<traceDistance, traceStepLength, surfaceHoles, traceIndex, traceBroke>>
    /\ UNCHANGED nonTraceVars

NextTrace ==
    \/ traceEnter
    \/ traceIteration
    \/ traceReturn

(***************************************************************************)
(* applySMA: the moving average over the heights of a closed contour.      *)
(***************************************************************************)
MaxSmaPoints == 3
MaxSmaWindow == 4
MaxSmaY == 1

SmaCoords == {0, 1}

SmaPointSets ==
    UNION {[1..n -> [x : SmaCoords, y : 0..MaxSmaY, z : SmaCoords]] : n \in 1..MaxSmaPoints}

\* The % operator of the language: the result has the sign of the dividend
\* (a negative zero reads element 0 of an array).
remainder(a, n) == IF a >= 0 THEN a % n ELSE 0 - ((0 - a) % n)

\* const index = (i + j + numPoints) % numPoints, with length for numPoints
wrappedIndex(i, j, length) == remainder(i + j + length, length)

\* points[index] is undefined for an index outside the array, and reading .y
\* of undefined throws a TypeError.
readThrows(points, windowSize) ==
    \E i \in 0..(Len(points) - 1), j \in (0 - windowSize)..windowSize :
        wrappedIndex(i, j, Len(points)) + 1 \notin DOMAIN points

\* The inner loop from j on: sumY and count of point i.
RECURSIVE sumFrom(_, _, _, _)
sumFrom(points, i, j, windowSize) ==
    IF j > windowSize
    THEN [sumY |-> 0, count |-> 0]
    ELSE LET rest == sumFrom(points, i, j + 1, windowSize)
             index == wrappedIndex(i, j, Len(points))
         IN  [sumY |-> points[index + 1].y + rest.sumY, count |-> rest.count + 1]

\* The returned array; a height is kept as the exact quotient sumY / count.
smoothed(points, windowSize) ==
    IF windowSize = 0
    THEN [k \in DOMAIN points |->
             [x |-> points[k].x, y |-> [sumY |-> points[k].y, count |-> 1],
              z |-> points[k].z]]
    ELSE [k \in DOMAIN points |->
             [x |-> points[k].x, y |-> sumFrom(points, k - 1, 0 - windowSize, windowSize),
              z |-> points[k].z]]

IdleSma ==
    /\ smaPc = "idle"
    /\ smaPoints = <<[x |-> 0, y |-> 0, z |-> 0]>>
    /\ smaWindowSize = 0
    /\ smoothedPoints = <<>>

InitSmaVars ==
    /\ smaPc = "idle"
    /\ smaPoints \in SmaPointSets
    /\ smaWindowSize \in 0..MaxSmaWindow
    /\ smoothedPoints = <<>>

applySMA ==
    /\ UNCHANGED nonSmaVars
    /\ smaPc = "idle"
    /\ IF smaWindowSize # 0 /\ readThrows(smaPoints, smaWindowSize)
       THEN /\ smaPc' = "threw"
            /\ UNCHANGED smoothedPoints
       ELSE /\ smaPc' = "returned"
            /\ smoothedPoints' = smoothed(smaPoints, smaWindowSize)
    /\ UNCHANGED <<smaPoints, smaWindowSize>>

NextSma == applySMA

(***************************************************************************)
(* class UnionFind under arbitrary sequences of find and union calls.      *)
(***************************************************************************)
UfSize == 4

IdleUf ==
    /\ ufParent = ufNew(1)
    /\ ufPairs = {}
    /\ ufCall = [op |-> "new", i |-> 1, result |-> 0]

\* new UnionFind(n)
InitUfVars ==
    /\ ufParent = ufNew(UfSize)
    /\ ufPairs = {}
    /\ ufCall = [op |-> "new", i |-> 1, result |-> 0]

\* find(i), path compression included.
find(i) ==
    /\ UNCHANGED nonUfVars
    /\ LET f == ufFind(ufParent, i)
       IN  /\ ufParent' = f.parent
           /\ ufCall' = [op |-> "find", i |-> i, result |-> f.root]
    /\ UNCHANGED ufPairs

\* union(i, j)
union(i, j) ==
    /\ UNCHANGED nonUfVars
    /\ ufParent' = ufUnion(ufParent, i, j)
    /\ ufPairs' = IF i = j THEN ufPairs ELSE ufPairs \cup {{i, j}}
    /\ ufCall' = [op |-> "union", i |-> 1, result |-> 0]

NextUf ==
    \/ \E i \in 1..UfSize : find(i)
    \/ \E i, j \in 1..UfSize : union(i, j)

(***************************************************************************)
(* The specifications.                                                     *)
(***************************************************************************)
Init ==
    InitUI /\ IdlePaths /\ IdleMesh /\ IdleLake /\ IdlePlace /\ IdleRings
        /\ IdleRiver /\ IdleScatter /\ IdleTrace /\ IdleSma /\ IdleUf

InitPaths ==
    InitUI /\ InitPathVars /\ IdleMesh /\ IdleLake /\ IdlePlace /\ IdleRings
        /\ IdleRiver /\ IdleScatter /\ IdleTrace /\ IdleSma /\ IdleUf

InitMesh ==
    InitUI /\ IdlePaths /\ InitMeshVars /\ IdleLake /\ IdlePlace /\ IdleRings
        /\ IdleRiver /\ IdleScatter /\ IdleTrace /\ IdleSma /\ IdleUf

InitLake ==
    InitUI /\ IdlePaths /\ IdleMesh /\ InitLakeVars /\ IdlePlace /\ IdleRings
        /\ IdleRiver /\ IdleScatter /\ IdleTrace /\ IdleSma /\ IdleUf

InitPlace ==
    InitUI /\ IdlePaths /\ IdleMesh /\ IdleLake /\ InitPlaceVars /\ IdleRings
        /\ IdleRiver /\ IdleScatter /\ IdleTrace /\ IdleSma /\ IdleUf

InitRings ==
    InitUI /\ IdlePaths /\ IdleMesh /\ IdleLake /\ IdlePlace /\ InitRingVars
        /\ IdleRiver /\ IdleScatter /\ IdleTrace /\ IdleSma /\ IdleUf

InitRiver ==
    InitUI /\ IdlePaths /\ IdleMesh /\ IdleLake /\ IdlePlace /\ IdleRings
        /\ InitRiverVars /\ IdleScatter /\ IdleTrace /\ IdleSma /\ IdleUf

InitScatter ==
    InitUI /\ IdlePaths /\ IdleMesh /\ IdleLake /\ IdlePlace /\ IdleRings
        /\ IdleRiver /\ InitScatterVars /\ IdleTrace /\ IdleSma /\ IdleUf

InitTrace ==
    InitUI /\ IdlePaths /\ IdleMesh /\ IdleLake /\ IdlePlace /\ IdleRings
        /\ IdleRiver /\ IdleScatter /\ InitTraceVars /\ IdleSma /\ IdleUf

InitSma ==
    InitUI /\ IdlePaths /\ IdleMesh /\ IdleLake /\ IdlePlace /\ IdleRings
        /\ IdleRiver /\ IdleScatter /\ IdleTrace /\ InitSmaVars /\ IdleUf

InitUf ==
    InitUI /\ IdlePaths /\ IdleMesh /\ IdleLake /\ IdlePlace /\ IdleRings
        /\ IdleRiver /\ IdleScatter /\ IdleTrace /\ IdleSma /\ InitUfVars

Spec == Init /\ [][NextUI]_vars

\* A pending setTimeout callback is run by the event loop: the timer at the
\* head of the queue eventually fires.
timerFires ==
    \/ \E cfg \in Configs : generateIslandResume(cfg)
    \/ \E o \in {"placed", "none"} : generateFoliageCallback(o)

\* The event loop with fewer accepted clicks and rock selections, for the
\* properties that are checked over whole behaviours.
NextFair ==
    /\ NextUI
    /\ \A p \in PassIds : p > MaxFairPasses => passes'[p] = "idle"
    /\ Len(rockLoads') <= MaxFairSelects

SpecFair == Init /\ [][NextFair]_vars /\ WF_vars(timerFires)

SpecPaths == InitPaths /\ [][NextPaths]_vars

SpecMesh == InitMesh /\ [][NextMesh]_vars

SpecLake == InitLake /\ [][NextLake]_vars

SpecPlace == InitPlace /\ [][NextPlace]_vars

SpecRings == InitRings /\ [][NextRings]_vars

SpecRiver == InitRiver /\ [][NextRiver]_vars

\* traceRiverPath and the river loop are synchronous code: a step that can be
\* taken is taken.
SpecRiverFair == InitRiver /\ [][NextRiver]_vars /\ WF_vars(NextRiver)

SpecScatter == InitScatter /\ [][NextScatter]_vars

\* createSurfacePath is synchronous code: a step that can be taken is taken.
SpecTrace == InitTrace /\ [][NextTrace]_vars /\ WF_vars(NextTrace)

SpecSma == InitSma /\ [][NextSma]_vars

SpecUf == InitUf /\ [][NextUf]_vars

(***************************************************************************)
(* Properties of the event loop and the scene.                             *)
(***************************************************************************)
InFlight == {p \in PassIds : passes[p] \in {"awaitTimer", "awaitFoliage"}}

\* The passes that have objects in the scene.
ScenePasses ==
    {o.pass : o \in group \cup foliageGroup \cup pathGroup \cup waterGroup \cup riverMeshes}
    \cup ({contourLine, foliageBoundaryLine, outerContourLine, islandSurface,
           groundCoverMesh} \ {0})

\* C1: no two generation passes are in flight at the same time: between the
\* acceptance of a trigger and the end of that pass's deferred foliage callback
\* no second generateIsland invocation is accepted.
C1_NoTwoPassesInFlight == Cardinality(InFlight) <= 1

\* C2: a pass whose synchronous part threw leaves none of its own objects in
\* the scene (no rock ring without a terrain surface).
C2_FailedPassLeavesNothing ==
    \A p \in PassIds : passes[p] = "failed" => p \notin ScenePasses

\* C3: once a pass and its deferred foliage step have finished, the scene holds
\* no object produced by an earlier pass.
C3_NoObjectOfEarlierPass ==
    \A p \in PassIds : passes[p] = "finished" =>
        \A q \in ScenePasses : q >= p

\* C11: a generation step that runs with an empty prototype list builds
\* nothing and raises no fault: a pass whose synchronous part runs while
\* this.rockModels is empty (a file selection emptied it during the 20 ms
\* yield) does not end in the catch block and leaves no object of its own, and
\* a foliage callback that runs while this.foliageModels is empty adds no
\* foliage of its pass.
C11_EmptyListNoFault ==
    [][\A p \in PassIds :
          /\ (passes[p] = "awaitTimer" /\ passes'[p] # "awaitTimer" /\ rockModels = 0)
                => (passes'[p] # "failed" /\ p \notin ScenePasses')
          /\ (passes[p] = "awaitFoliage" /\ passes'[p] = "finished" /\ foliageModels = 0)
                => Obj("foliage", p) \notin foliageGroup']_vars

Ribbons(S) == {o \in S : o.kind \in {"riverbed", "water"}}

\* C19: when the synchronous part of a pass generates paths, the obstacle list
\* against which the path edges are weighted holds both ribbons of every river
\* that the pass generated and no ribbon of another pass, and it is empty when
\* water features are disabled.
C19_ObstaclesOfThisPass ==
    [][(timers # <<>> /\ passes'[Head(timers).pass] = "awaitFoliage") =>
          \A cfg \in Configs :
              generateIslandResume(cfg) =>
                  \A o \in pathGroup' :
                      /\ o.pass = Head(timers).pass
                      /\ o.obstacles = Ribbons(waterGroup')
                      /\ \A w \in o.obstacles : w.pass = o.pass
                      /\ Obj("riverbed", o.pass) \in o.obstacles
                            <=> Obj("water", o.pass) \in o.obstacles
                      /\ (cfg.water /\ cfg.rivers) => o.obstacles # {}
                      /\ ~cfg.water => o.obstacles = {}]_vars

\* C19 witness: the paths of a second pass were weighted against the two
\* ribbons of that pass.
C19_Witness ==
    \E o \in pathGroup :
        /\ o.pass > 1
        /\ o.obstacles = {Obj("riverbed", o.pass), Obj("water", o.pass)}
        /\ Ribbons(waterGroup) = o.obstacles

(***************************************************************************)
(* Properties of generateGraphPaths.                                       *)
(***************************************************************************)
Range(f) == {f[i] : i \in DOMAIN f}

\* Squared distance (times D * D) from point q to the circumcentre of the
\* triangle t, whose centre is (Ux / D, Uz / D).
CentreDistSq(t, q) ==
    LET a2 == t.v0.x * t.v0.x + t.v0.z * t.v0.z
        b2 == t.v1.x * t.v1.x + t.v1.z * t.v1.z
        c2 == t.v2.x * t.v2.x + t.v2.z * t.v2.z
        D == 2 * (t.v0.x * (t.v1.z - t.v2.z) + t.v1.x * (t.v2.z - t.v0.z)
                  + t.v2.x * (t.v0.z - t.v1.z))
        Ux == a2 * (t.v1.z - t.v2.z) + b2 * (t.v2.z - t.v0.z) + c2 * (t.v0.z - t.v1.z)
        Uz == a2 * (t.v2.x - t.v1.x) + b2 * (t.v0.x - t.v2.x) + c2 * (t.v1.x - t.v0.x)
    IN  (q.x * D - Ux) * (q.x * D - Ux) + (q.z * D - Uz) * (q.z * D - Uz)

TwiceArea(t) ==
    t.v0.x * (t.v1.z - t.v2.z) + t.v1.x * (t.v2.z - t.v0.z) + t.v2.x * (t.v0.z - t.v1.z)

\* q lies strictly inside the circumcircle of t (a triangle of area 0 has none).
StrictlyInsideCircumcircle(t, q) ==
    /\ TwiceArea(t) # 0
    /\ CentreDistSq(t, q) < CentreDistSq(t, t.v0)

TriangulationDone == pathPc # "idle" /\ pathPc # "triangulate"

\* C5: no input node lies strictly inside the circumcircle of a triangle that
\* delaunayTriangulation returned.
C5_EmptyCircumcircles ==
    TriangulationDone =>
        \A i \in DOMAIN triangles : \A n \in DOMAIN nodes :
            ~StrictlyInsideCircumcircle(triangles[i], vertices2D(nodes)[n])

\* C5 witness: four nodes were triangulated into at least two triangles that
\* together use all four of them.
C5_Witness ==
    /\ TriangulationDone
    /\ Len(nodes) = 4
    /\ Len(triangles) >= 2
    /\ \A n \in DOMAIN nodes : \E i \in DOMAIN triangles :
          n \in {triangles[i].v0.originalIndex, triangles[i].v1.originalIndex,
                 triangles[i].v2.originalIndex}

\* The nodes reachable from the set S along the undirected edges E.
RECURSIVE Reach(_, _)
Reach(E, S) ==
    LET T == S \cup {e.v : e \in {f \in E : f.u \in S}}
               \cup {e.u : e \in {f \in E : f.v \in S}}
    IN  IF T = S THEN S ELSE Reach(E, T)

\* The connected components of the graph (1..n, E).
Components(n, E) == {Reach(E, {u}) : u \in 1..n}

Ends(es) == {[u |-> es[i].u, v |-> es[i].v] : i \in DOMAIN es}

\* The edge sequence es has no repeated edge and no cycle.
IsForest(n, es) ==
    /\ Cardinality(Ends(es)) = Len(es)
    /\ \A e \in Ends(es) : e.u # e.v /\ e.v \notin Reach(Ends(es) \ {e}, {e.u})

\* The candidate edges that cross no river.
BuildableEdges == SelectSeq(allEdges, LAMBDA e : e.weight # Infinity)

KruskalDone == pathPc \in {"loops", "done"}

\* C6 (as amended): the edges selected by Kruskal's algorithm form a forest
\* that connects two nodes exactly when candidate edges that cross no river
\* connect them; when those edges connect all nodes it is a spanning tree with
\* |nodes| - 1 edges.
C6_SpanningForestOfBuildable ==
    KruskalDone =>
        /\ IsForest(Len(nodes), mstEdges)
        /\ Components(Len(nodes), Ends(mstEdges))
              = Components(Len(nodes), Ends(BuildableEdges))
        /\ Cardinality(Components(Len(nodes), Ends(BuildableEdges))) = 1
              => Len(mstEdges) = Len(nodes) - 1

\* C6 witness: an edge crosses a river and the selected edges still connect
\* all nodes.
C6_Witness ==
    /\ KruskalDone
    /\ \E i \in DOMAIN allEdges : allEdges[i].weight = Infinity
    /\ Len(mstEdges) = Len(nodes) - 1
    /\ Cardinality(Components(Len(nodes), Ends(mstEdges))) = 1

\* C6 as stated: the selected edges are a spanning tree of all accepted nodes
\* with |nodes| - 1 edges, whatever edges cross a river.
C6_SpanningTreeOfAllNodes ==
    KruskalDone =>
        /\ IsForest(Len(nodes), mstEdges)
        /\ Cardinality(Components(Len(nodes), Ends(mstEdges))) = 1
        /\ Len(mstEdges) = Len(nodes) - 1

\* Sum of the squared endpoint distances of the edges es[i], i in I.
RECURSIVE TotalWeight(_, _)
TotalWeight(es, I) ==
    IF I = {} THEN 0
    ELSE LET i == CHOOSE j \in I : TRUE
         IN  distanceToSquared(nodes[es[i].u], nodes[es[i].v]) + TotalWeight(es, I \ {i})

SubSeqAt(es, I) == SelectSeq([i \in DOMAIN es |-> IF i \in I THEN es[i] ELSE <<>>],
                             LAMBDA e : e # <<>>)

\* C7 (as amended): the total weight of the selected edges is minimal among
\* the spanning forests of the candidate edges that cross no river.
C7_MinimalAmongBuildable ==
    pathPc = "loops" =>
        \A I \in SUBSET (DOMAIN BuildableEdges) :
            (/\ IsForest(Len(nodes), SubSeqAt(BuildableEdges, I))
             /\ Components(Len(nodes), Ends(SubSeqAt(BuildableEdges, I)))
                   = Components(Len(nodes), Ends(BuildableEdges)))
            => TotalWeight(mstEdges, DOMAIN mstEdges) <= TotalWeight(BuildableEdges, I)

\* C7 witness: the candidate graph has a cycle with edges of different weight,
\* so that spanning forests of different total weight exist.
C7_Witness ==
    /\ pathPc = "loops"
    /\ remainingEdges # <<>>
    /\ \E i, j \in DOMAIN BuildableEdges :
          BuildableEdges[i].weight # BuildableEdges[j].weight

\* C7 as stated: the total weight of the selected edges is minimal among the
\* spanning trees of the graph of all unique edges of the triangulation.
C7_MinimalAmongAllCandidates ==
    pathPc = "loops" =>
        \A I \in SUBSET (DOMAIN allEdges) :
            (/\ IsForest(Len(nodes), SubSeqAt(allEdges, I))
             /\ Cardinality(Components(Len(nodes), Ends(SubSeqAt(allEdges, I)))) = 1)
            => TotalWeight(mstEdges, DOMAIN mstEdges) <= TotalWeight(allEdges, I)

(***************************************************************************)
(* Properties of the terrain meshes.                                       *)
(***************************************************************************)
\* C4: every triangle of the ground cover and of the central surface that is
\* not vertical has a face normal with a positive y component.
C4_NormalsPointUp ==
    /\ \A i \in DOMAIN groundCoverIndices :
          triangleNormalY(groundCoverVertices, groundCoverIndices[i]) >= 0
    /\ \A i \in DOMAIN surfaceIndices :
          triangleNormalY(surfaceVertices, surfaceIndices[i]) >= 0

(***************************************************************************)
(* Properties of the lake placement.                                       *)
(***************************************************************************)
\* C10: every placed lake has its centre inside the sand polygon and its
\* extent, centre - radius to centre + radius on both axes, inside the
\* bounding box of the sand polygon.
C10_LakeInsideSandBox ==
    \A i \in DOMAIN lakes :
        LET box == expandByPoints(timesRandomSteps(innerFoliageBoundaryPoints))
            c == lakes[i].center
            r == RandomSteps * lakes[i].radius
        IN  /\ isPointInPolygon(c, timesRandomSteps(innerFoliageBoundaryPoints))
            /\ box.min.x <= c.x - r
            /\ c.x + r <= box.max.x
            /\ box.min.z <= c.z - r
            /\ c.z + r <= box.max.z

(***************************************************************************)
(* Properties of placeFoliageOnMesh.                                       *)
(***************************************************************************)
\* The four conditions on a face: the y of its unit normal is at least
\* cos(maxSlope), some vertex is above height 0, the centroid is inside the
\* outer boundary and outside the inner boundary.
SlopeOk(f) ==
    LET n == getNormal(f.vA, f.vB, f.vC)
    IN  /\ n.y >= 0
        /\ lengthSq(n) > 0
        /\ 4 * n.y * n.y >= cosSqTimes4(maxSlopeDegrees) * lengthSq(n)

NotSubmerged(f) == f.vA.y > 0 \/ f.vB.y > 0 \/ f.vC.y > 0

CentroidIn(f, polygon) == isPointInPolygon(centroid2DTimes3(f), timesThree(polygon))

PassesAllFilters(f) ==
    /\ SlopeOk(f)
    /\ NotSubmerged(f)
    /\ CentroidIn(f, outerBoundary)
    /\ ~CentroidIn(f, innerBoundary)

\* C8: every instance lies on a face that passed the slope, submersion,
\* inclusion and exclusion filters.
C8_InstancesOnValidFaces ==
    \A i \in DOMAIN instances :
        /\ PassesAllFilters(instances[i].face)
        /\ \E j \in DOMAIN meshFaces : meshFaces[j] = instances[i].face
        /\ instances[i].u >= 0 /\ instances[i].v >= 0 /\ instances[i].w >= 0

\* C8 witness: an instance was placed on a mesh that also has a face inside
\* the inner boundary with an acceptable slope above the water.
C8_Witness ==
    /\ instances # <<>>
    /\ \E j \in DOMAIN meshFaces :
          /\ SlopeOk(meshFaces[j])
          /\ NotSubmerged(meshFaces[j])
          /\ CentroidIn(meshFaces[j], innerBoundary)

\* The doubled area of the faces that pass the four filters.
RECURSIVE ValidArea2(_)
ValidArea2(i) ==
    IF i = 0 THEN 0
    ELSE ValidArea2(i - 1)
         + (IF PassesAllFilters(meshFaces[i]) THEN getArea2(meshFaces[i]) ELSE 0)

\* floor(totalValidArea / 100 * density)
UncappedCount == (ValidArea2(Len(meshFaces)) * grassDensityHalves) \div 400

PlacementEnded == placePc \in {"returned", "done"}

\* C9: the number of instances is min(floor(totalValidArea / 100 * density),
\* cap) when a cap is given and floor(totalValidArea / 100 * density)
\* otherwise; it is 0 when the density is 0.
C9_InstanceCount ==
    PlacementEnded =>
        /\ Len(instances) = IF maxCountInput.given
                            THEN Min(UncappedCount, maxCountInput.value)
                            ELSE UncappedCount
        /\ grassDensityHalves = 0 => Len(instances) = 0

\* C9 witness: the cap is smaller than the uncapped count and as many
\* instances as the cap were placed.
C9_Witness ==
    /\ placePc = "done"
    /\ maxCountInput.given
    /\ maxCountInput.value < UncappedCount
    /\ Len(instances) = maxCountInput.value

\* The number of mesh faces examined so far that fall in a class of faces.
FacesCounted(InClass(_)) ==
    Cardinality({i \in 1..faceIndex : InClass(meshFaces[i])})

\* The five classes of faces, by the first test a face fails.
TooSteep(f) == ~SlopeOk(f)
Submerged(f) == SlopeOk(f) /\ ~NotSubmerged(f)
OutsideBand(f) == SlopeOk(f) /\ NotSubmerged(f) /\ ~CentroidIn(f, outerBoundary)
InsideBand(f) ==
    SlopeOk(f) /\ NotSubmerged(f) /\ CentroidIn(f, outerBoundary)
        /\ CentroidIn(f, innerBoundary)

\* C13: when the valid area is zero or the computed instance count is zero,
\* placeFoliageOnMesh returns without placing an instance, and its diagnostic
\* counts every face of the mesh in exactly one of the counters rejected-slope,
\* rejected-submerged, rejected-outside, rejected-inside and accepted.
C13_NothingPlacedDiagnostic ==
    (placePc \notin {"idle", "filter"} /\ (totalArea2 = 0 \/ numInstances = 0)) =>
        /\ placePc = "returned"
        /\ instances = <<>>
        /\ debugStats.totalFaces = Len(meshFaces)
        /\ debugStats.rejectedSlope = FacesCounted(TooSteep)
        /\ debugStats.rejectedSubmerged = FacesCounted(Submerged)
        /\ debugStats.rejectedOutsideBand = FacesCounted(OutsideBand)
        /\ debugStats.rejectedInsideBand = FacesCounted(InsideBand)
        /\ debugStats.accepted = FacesCounted(PassesAllFilters)
        /\ debugStats.rejectedSlope + debugStats.rejectedSubmerged
             + debugStats.rejectedOutsideBand + debugStats.rejectedInsideBand
             + debugStats.accepted = debugStats.totalFaces

\* C13 witness: the function returned with a valid face (the computed count
\* is zero) on a mesh that also has a rejected face.
C13_Witness ==
    /\ placePc = "returned"
    /\ debugStats.accepted > 0
    /\ debugStats.accepted < debugStats.totalFaces
    /\ numInstances = 0

\* C14: a lake for which no centre is found within the attempt budget is
\* skipped alone: every requested lake is either placed or skipped with a
\* warning, the lakes after a skipped one are still attempted, at most numLakes
\* lakes are placed, and the terrain, the water features and the paths of the
\* pass are still generated from the lakes that were placed.
C14_SkippedLakeAlone ==
    /\ Len(lakes) + Len(lakeWarnings) = lakeIndex
    /\ lakeIndex <= numLakes
    /\ Len(lakes) <= numLakes
    /\ lakePc # "placing" => lakeIndex = numLakes
    /\ lakePc \in {"paths", "done"} => lakeSurfaces = Len(lakes)
    /\ lakePc \in {"placing", "terrain", "water", "paths"} => ENABLED NextLake

\* C14 witness: the pass went on to its end after the first lake was skipped
\* and a later lake was attempted.
C14_Witness ==
    /\ lakePc = "done"
    /\ numLakes > 1
    /\ lakeWarnings # <<>>
    /\ lakeWarnings[1] = 0
    /\ Len(lakes) + Len(lakeWarnings) = numLakes

\* The bounding box of the nodes has zero area.
ZeroAreaBox ==
    \/ Cardinality({nodes[i].x : i \in DOMAIN nodes}) = 1
    \/ Cardinality({nodes[i].z : i \in DOMAIN nodes}) = 1

\* C15: degenerate geometry does not halt the pass.  isPointInPolygon reports
\* outside for a polygon of fewer than 3 points and generateGraphPaths returns
\* at once for such an inclusion polygon; for nodes whose bounding box has zero
\* area delaunayTriangulation returns no triangle, the function runs to its
\* end and no path edge is produced.
C15_DegenerateGeometryAbsorbed ==
    /\ Len(innerContour) < 3 =>
          /\ \A g \in GridPoints : ~isPointInPolygon(g, innerContour)
          /\ pathPc \in {"idle", "entry", "returned"}
          /\ nodes = <<>> /\ finalEdges = <<>>
    /\ (Len(nodes) >= MinNodes /\ ZeroAreaBox) =>
          /\ TriangulationDone => triangles = <<>>
          /\ allEdges = <<>> /\ mstEdges = <<>> /\ finalEdges = <<>>
          /\ pathPc # "done" => ENABLED NextPaths

\* C15 witness: generateGraphPaths ran to its end on nodes of one line, at
\* least three of them distinct.
C15_Witness ==
    /\ pathPc = "done"
    /\ ZeroAreaBox
    /\ Cardinality({nodes[i] : i \in DOMAIN nodes}) >= MinNodes

\* The candidate edges whose weight was set to Infinity.
UnbuildableEdges == SelectSeq(allEdges, LAMBDA e : e.weight = Infinity)

\* C17: no candidate edge whose weight was set to Infinity is in the spanning
\* tree, among the edges set aside for loops, or in the final edge set.
C17_NoInfinityEdgeInFinal ==
    /\ Ends(mstEdges) \cap Ends(UnbuildableEdges) = {}
    /\ Ends(remainingEdges) \cap Ends(UnbuildableEdges) = {}
    /\ Ends(finalEdges) \cap Ends(UnbuildableEdges) = {}

\* C17 witness: an edge crosses a river, and every edge that union-find
\* rejected was added as a loop.
C17_Witness ==
    /\ pathPc = "done"
    /\ UnbuildableEdges # <<>>
    /\ remainingEdges # <<>>
    /\ loopPercentage = 100

\* The edges of finalEdges after the spanning tree.
LoopEdges == SubSeq(finalEdges, Len(mstEdges) + 1, Len(finalEdges))

\* C18: the final edge set is the spanning tree followed by exactly
\* floor(loopFraction * |pool|) distinct edges of the pool, the finite-weight
\* edges that union-find rejected; tree and pool are disjoint and together are
\* all finite-weight candidate edges, so the fraction 0 gives the tree alone
\* and the fraction 1 every finite-weight candidate edge.
C18_TreePlusLoops ==
    pathPc = "done" =>
        /\ Len(finalEdges) >= Len(mstEdges)
        /\ SubSeq(finalEdges, 1, Len(mstEdges)) = mstEdges
        /\ 100 * Len(LoopEdges) <= loopPercentage * Len(remainingEdges)
        /\ 100 * (Len(LoopEdges) + 1) > loopPercentage * Len(remainingEdges)
        /\ Cardinality(Ends(LoopEdges)) = Len(LoopEdges)
        /\ Ends(LoopEdges) \subseteq Ends(remainingEdges)
        /\ Ends(mstEdges) \cap Ends(remainingEdges) = {}
        /\ Ends(mstEdges) \cup Ends(remainingEdges) = Ends(BuildableEdges)
        /\ Len(mstEdges) + Len(remainingEdges) = Len(BuildableEdges)
        /\ loopPercentage = 0 => finalEdges = mstEdges
        /\ loopPercentage = 100 => Ends(finalEdges) = Ends(BuildableEdges)

\* C18 witness: half of a pool of three edges: one loop edge was added, two
\* were left out.
C18_Witness ==
    /\ pathPc = "done"
    /\ loopPercentage = 50
    /\ Len(remainingEdges) = 3
    /\ Len(LoopEdges) = 1

(***************************************************************************)
(* Properties of the rock rings.                                           *)
(***************************************************************************)
\* n is the integer nearest to 3.75 * r / RadiusUnit, a half counting upwards:
\* 2 n - 1 <= 2 * 3.75 * r / RadiusUnit < 2 n + 1, cleared of fractions.
NearestToDensity(n, r) ==
    /\ (2 * n - 1) * 4 * RadiusUnit <= 30 * r
    /\ 30 * r < (2 * n + 1) * 4 * RadiusUnit

\* count = max(3, round(3.75 * r / RadiusUnit))
DensityLaw(count, r) ==
    /\ count >= 3
    /\ count = 3 => 30 * r < 7 * 4 * RadiusUnit
    /\ count > 3 => NearestToDensity(count, r)

\* C16: the inner ring holds exactly max(3, round(3.75 * R)) points, 75 for
\* R = 20, the outer ring holds the count that the same law gives for
\* R + offset, and both counts are at least 3.
C16_RingCounts ==
    /\ ringPc \in {"inner", "outer", "done"} =>
          /\ DensityLaw(numLargeRocks, baseRadius)
          /\ baseRadius = 20 * RadiusUnit => numLargeRocks = 75
    /\ ringPc \in {"outer", "done"} =>
          /\ Len(innerContourData) = numLargeRocks
          /\ DensityLaw(numSmallRocks, baseRadius + shorelineOffset)
    /\ ringPc = "done" => Len(smallRocksGroup) = numSmallRocks

\* C16 witness: both rings are complete for a radius at which 3.75 * R lies
\* exactly on a half above 3 and the outer ring holds more rocks.
C16_Witness ==
    /\ ringPc = "done"
    /\ numLargeRocks > 3
    /\ 30 * baseRadius = (2 * numLargeRocks - 1) * 4 * RadiusUnit
    /\ numSmallRocks > numLargeRocks

(***************************************************************************)
(* Properties of the river ribbons.                                        *)
(***************************************************************************)
\* The point of the x-z plane lies on the centre line of the ribbons: the
\* centre line joins the points of ribbonPath in order, and every one of
\* them lies on the segment between the two ends that createSurfacePath was
\* given, the first and the last of them at its ends.
OnCentreLine(point) ==
    /\ ribbonPath # <<>>
    /\ LET from == ribbonPath[1].from
           to == ribbonPath[1].to
           offLine == (to.x - from.x) * (point.z - from.z) - (to.z - from.z) * (point.x - from.x)
           alongLine == (to.x - from.x) * (point.x - from.x) + (to.z - from.z) * (point.z - from.z)
       IN  /\ offLine = 0
           /\ 0 <= alongLine
           /\ alongLine <= distanceSq(from, to)

\* C20: the riverbed and the water ribbon of a river follow the polyline of
\* its descent walk: once the ribbons are built, every point of the traced
\* river path is a point of their centre line.
C20_RibbonsFollowTracedPath ==
    (riverPc = "done" /\ riverRibbons # <<>>) =>
        \A i \in DOMAIN riverPath : OnCentreLine(riverPath[i])

(***************************************************************************)
(* Properties of the lake depressions and of the seam of the two meshes.   *)
(***************************************************************************)
\* The vertices of the two meshes above the skirt bottoms, on an island
\* without lakes.
GroundWithoutLakes == groundCoverPositions(shorelinePoints, boundaryPoints, <<>>)
SurfaceWithoutLakes == surfacePositions(boundaryPoints, baseHeight, <<>>)
GroundTop == 1..((GroundRings + 1) * Len(boundaryPoints))
SurfaceTop == 1..(1 + (SurfaceRings + 1) * Len(boundaryPoints))

\* C21: every vertex of the ground cover and of the central surface, the
\* centre vertex included and the skirt bottoms excepted, is stored with its
\* height lowered by depth * (1 - smoothstep(dist, 0, radius)) for every lake
\* whose centre is nearer to it than the lake's radius, and by nothing for
\* the other lakes.
C21_LakesLowerEveryVertex ==
    /\ groundCoverVertices # <<>> =>
          \A i \in GroundTop :
              groundCoverVertices[i].y
                  = GroundWithoutLakes[i].y - lakeDepression(meshLakes, GroundWithoutLakes[i])
    /\ surfaceVertices # <<>> =>
          \A i \in SurfaceTop :
              surfaceVertices[i].y
                  = SurfaceWithoutLakes[i].y
                      - lakeDepression(meshLakes, SurfaceWithoutLakes[i])

\* The vertex of segment s (from 1) on the innermost ring of the ground cover
\* and on the boundary ring of the central surface.
GroundInnermost(s) == groundCoverVertices[GroundRings * Len(boundaryPoints) + s]
SurfaceBoundary(s) == surfaceVertices[1 + SurfaceRings * Len(boundaryPoints) + s]

BothMeshesBuilt == groundCoverVertices # <<>> /\ surfaceVertices # <<>>

\* C22: the innermost ring of the ground cover and the boundary ring of the
\* central surface have one vertex per segment of the boundary, and the two
\* vertices of a segment are stored with the same x, y and z, with and
\* without lakes.
C22_SeamVerticesIdentical ==
    BothMeshesBuilt =>
        /\ Len(groundCoverVertices) = (GroundRings + 2) * Len(boundaryPoints)
        /\ Len(surfaceVertices) = 1 + (SurfaceRings + 2) * Len(boundaryPoints)
        /\ \A s \in DOMAIN boundaryPoints : GroundInnermost(s) = SurfaceBoundary(s)

\* Both meshes are built, the shoreline is at another height than the
\* boundary, and a lake lowers a vertex of the seam.
C22_Witness ==
    /\ BothMeshesBuilt
    /\ shorelinePoints[1].y # boundaryPoints[1].y
    /\ \E s \in DOMAIN boundaryPoints :
          /\ SurfaceBoundary(s).y < boundaryPoints[s].y * HeightScale
          /\ SurfaceBoundary(s).y > (boundaryPoints[s].y - 2) * HeightScale

(***************************************************************************)
(* Properties of the river walk.                                           *)
(***************************************************************************)
\* The points one step ahead of the last point of the walk, in the arc about
\* the current direction, that lie on the surface.
HitsAhead ==
    LET last == riverPath[Len(riverPath)]
    IN  {q \in RiverPoints :
            \E j \in {-1, 0, 1} :
                /\ q.x = last.x + Directions[((currentDirection - 1 + j + 8) % 8) + 1].x
                /\ q.z = last.z + Directions[((currentDirection - 1 + j + 8) % 8) + 1].z}

Height(q) == terrain.base + terrain.a * q.x + terrain.b * q.z

\* The point lies within the radius of a lake, below its water level.
InLake(q) ==
    \E i \in DOMAIN riverLakes :
        /\ Height(q) < riverLakes[i].waterLevel
        /\ (q.x - riverLakes[i].center.x) * (q.x - riverLakes[i].center.x)
             + (q.z - riverLakes[i].center.z) * (q.z - riverLakes[i].center.z)
                < riverLakes[i].radiusSq

\* A condition that ends the walk holds.
WalkEnded ==
    \/ HitsAhead = {}
    \/ \A q \in HitsAhead : Height(q) >= Height(riverPath[Len(riverPath)])
    \/ traceStep >= maxSteps
    \/ Len(riverPath) > 1 /\ InLake(riverPath[Len(riverPath)])

\* C23: a river walk appends points one at a time and appends none once no
\* sample ahead hits the terrain, the lowest sample is not lower than the
\* current point, 200 steps are taken or the last appended point is in a
\* lake below its water level; a river path has at most 201 points, and the
\* walk always ends.
C23_WalkStops ==
    /\ [][/\ riverPath' # riverPath =>
                /\ ~WalkEnded
                /\ Len(riverPath') = Len(riverPath) + 1
                /\ SubSeq(riverPath', 1, Len(riverPath)) = riverPath
          /\ Len(riverPath') <= maxSteps + 1]_vars
    /\ <>(riverPc = "done")

\* A walk that used up its step budget where it could have gone on, and a
\* walk that ended in a lake.
C23_Witness ==
    /\ riverPc = "done"
    /\ Len(riverPath) = maxSteps + 1
    /\ \E q \in HitsAhead : Height(q) < Height(riverPath[Len(riverPath)])

\* C28: along a traced river path the height strictly decreases from each
\* point to the next, so that no point occurs twice in the path.  (Every
\* prefix of a path is the path of an earlier state, so the property is
\* stated for the last point.)
C28_StrictDescent ==
    Len(riverPath) > 1 =>
        /\ Height(riverPath[Len(riverPath)]) < Height(riverPath[Len(riverPath) - 1])
        /\ \A i \in 1..(Len(riverPath) - 1) : riverPath[i] # riverPath[Len(riverPath)]

\* A walk of several steps that turned on its way down.
C28_Witness ==
    /\ riverPc = "done"
    /\ Len(riverPath) > 3
    /\ \E i \in 1..(Len(riverPath) - 2) :
          riverPath[i + 1].z - riverPath[i].z # riverPath[i + 2].z - riverPath[i + 1].z

(***************************************************************************)
(* Properties of the scattering loop.                                      *)
(***************************************************************************)
\* The positions that may become a node: inside the inclusion polygon, with
\* the surface under them.
AcceptablePoints ==
    {q \in TestPoints : isPointInPolygon(q, ScatterContour) /\ q # [x |-> 1, z |-> 1]}

\* C24: every iteration of the scattering loop counts one attempt and the
\* loop makes at most 100 * numPoints of them, so that it ends; it accepts at
\* most numPoints nodes, every node lies inside the inclusion polygon over a
\* point where the height query succeeds, and with fewer than 3 nodes no
\* path edge, and so no ribbon, is made.
C24_ScatterBounded ==
    [][/\ scatterPc' = "scatter" /\ scatterPc = "scatter" => attempts' = attempts + 1
       /\ attempts' <= AttemptsPerPoint * numPoints'
       /\ Len(placedNodes') <= numPoints'
       /\ \A i \in DOMAIN placedNodes' :
             [x |-> placedNodes'[i].x, z |-> placedNodes'[i].z] \in AcceptablePoints
       /\ Len(placedNodes') < 3 => scatterEdges' = <<>>]_vars

\* The loop used up its attempts with too few nodes, after attempts that
\* were rejected by the polygon and by the height query.
C24_Witness ==
    /\ scatterPc = "returned"
    /\ numPoints >= 3
    /\ attempts = AttemptsPerPoint * numPoints
    /\ Len(placedNodes) = 2
    /\ scatterEdges = <<>>

(***************************************************************************)
(* Properties of createSurfacePath.                                        *)
(***************************************************************************)
\* C25: when a height query fails while a path is traced, the returned path
\* ends at the last point that was queried with success: it has no point at
\* or beyond the place of the failed query, and so not the far end point.
C25_PathEndsAtFailedQuery ==
    (tracePc = "returned" /\ traceBroke) =>
        \A k \in DOMAIN tracePath :
            tracePath[k] < Min(traceStepLength * traceIndex, traceDistance)

\* C27: createSurfacePath returns for every distance of the two points and
\* every step length of 0 or more.
C27_TraceTerminates == <>(tracePc = "returned")

\* C26: whenever the generate trigger is enabled, the rock prototype list is
\* non-empty and no rock file of any selection is still being read.
C26_EnabledMeansRocksLoaded ==
    generateButtonDisabled = FALSE =>
        /\ rockModels > 0
        /\ \A l \in DOMAIN rockLoads : rockLoads[l].pending = 0

(***************************************************************************)
(* Properties of applySMA.                                                 *)
(***************************************************************************)
\* C29: applySMA reads only existing points: for every point count n >= 1,
\* window size w >= 0 and index i, each wrapped index of j in -w..w lies in
\* 0..n-1, and the call returns n points whose x and z equal the input's.
C29_ReadsOnlyExistingPoints ==
    smaPc # "idle" =>
        /\ \A i \in 0..(Len(smaPoints) - 1), j \in (0 - smaWindowSize)..smaWindowSize :
              wrappedIndex(i, j, Len(smaPoints)) \in 0..(Len(smaPoints) - 1)
        /\ smaPc = "returned"
        /\ Len(smoothedPoints) = Len(smaPoints)
        /\ \A k \in DOMAIN smaPoints :
              /\ smoothedPoints[k].x = smaPoints[k].x
              /\ smoothedPoints[k].z = smaPoints[k].z

(***************************************************************************)
(* Properties of UnionFind.                                                *)
(***************************************************************************)
\* The element reached from i by following k parent pointers.
RECURSIVE followed(_, _, _)
followed(parent, i, k) == IF k = 0 THEN i ELSE followed(parent, parent[i], k - 1)

\* Where the pointers lead from i: a root, unless they run into a cycle.
leadsTo(parent, i) == followed(parent, i, UfSize)

\* The elements connected to those of S through the pairs.
RECURSIVE linkedTo(_, _)
linkedTo(pairs, S) ==
    LET T == S \cup UNION {p \in pairs : p \cap S # {}}
    IN  IF T = S THEN S ELSE linkedTo(pairs, T)

SamePartition(parent, other) ==
    \A i, j \in 1..UfSize :
        (leadsTo(parent, i) = leadsTo(parent, j)) <=> (leadsTo(other, i) = leadsTo(other, j))

\* C30: after any sequence of union and find calls, two elements have the
\* same root exactly when they are connected through the pairs passed to
\* union, the parent pointers have no cycle but the self-loops of the roots,
\* find returns that root, and a find call leaves the partition as it was.
C30_UnionFindPartition ==
    [][/\ \A i, j \in 1..UfSize :
              (leadsTo(ufParent', i) = leadsTo(ufParent', j)) <=> (j \in linkedTo(ufPairs', {i}))
       /\ \A i \in 1..UfSize :
              ufParent'[leadsTo(ufParent', i)] = leadsTo(ufParent', i)
       /\ ufCall'.op = "find" =>
              /\ ufCall'.result = leadsTo(ufParent, ufCall'.i)
              /\ ufCall'.result = leadsTo(ufParent', ufCall'.i)
              /\ SamePartition(ufParent, ufParent')]_vars

\* A find call has compressed a path: its argument, once a grandchild of the
\* root through pairs that never named the two together, now points at the
\* root, and another element is in a set of its own.
C30_Witness ==
    /\ ufCall.op = "find"
    /\ ufCall.result # ufCall.i
    /\ ufParent[ufCall.i] = ufCall.result
    /\ {ufCall.i, ufCall.result} \notin ufPairs
    /\ \E k \in 1..UfSize : linkedTo(ufPairs, {k}) = {k}

====
